---- MODULE Spec2Model ----
(***************************************************************************)
(* pixelKanban: the local task board (js/kanban.js), its user store        *)
(* (js/userManager.js) and the GitHub sync adapter with its modal          *)
(* (js/dragDrop.js: GitHubAPI, GitHubBoards, GitHubBoardsUI).              *)
(*                                                                         *)
(* Text is modelled as a sequence of tokens.  A token is a record          *)
(* [k, m]: k names the piece of text, m is <<>> except for the token that  *)
(* stands for JSON.stringify(metadata), where m = <<metadata>>.            *)
(*   "NL2"      "\n\n"                      (white space)                  *)
(*   "SP"       " "                         (white space)                  *)
(*   "PRI"      "**Priority:**"                                            *)
(*   "DUE"      "**Due Date:**"                                            *)
(*   "BOLD"     any other "**...**" run                                    *)
(*   "OPEN"     "<!-- pixelKanban metadata:\n"                             *)
(*   "CLOSE"    "\n-->"                                                    *)
(*   "JSON"     the JSON text of a metadata object                         *)
(*   "JSONNULL" the JSON text "null"                                       *)
(*   "BADJSON"  text that JSON.parse rejects                               *)
(*   any other k is a word of the text (letters, digits, "-").             *)
(***************************************************************************)
EXTENDS Integers, Sequences, FiniteSets, TLC

\* ---------------------------------------------------------------- bounds
MaxTasks == 2        \* tasks in the initial local list
MaxOps == 2          \* push/pull/sync operations in flight at once
MaxEdits == 1        \* local task edits per behaviour
MaxStarts == 2       \* push/pull/sync clicks per behaviour

\* GitHubAPI.getRepoIssues / getRepoLabels: "per_page=100", first page only
PerPage == 100

\* ---------------------------------------------------------------- text
Tok(k) == [k |-> k, m |-> <<>>]
JsonTok(meta) == [k |-> "JSON", m |-> <<meta>>]

IsWs(t) == t.k \in {"NL2", "SP"}
IsBold(t) == t.k \in {"PRI", "DUE", "BOLD"}
IsMarkup(t) == t.k \in {"NL2", "SP", "PRI", "DUE", "BOLD", "OPEN", "CLOSE",
                        "JSON", "JSONNULL", "BADJSON"}
\* /\w+/ : a run of letters and digits at the start of the word
WordPrefix(t) == IF t.k = "2024-01-01" THEN "2024" ELSE t.k
IsWordStart(t) == ~IsMarkup(t)
\* /[\d-]+/ : a run of digits and dashes
IsDateWord(t) == t.k \in {"2024-01-01"}

\* String.prototype.toLowerCase on the label names of the model
ToLowerCase(s) ==
    CASE s = "Done" -> "done"
      [] s = "To Do" -> "to do"
      [] s = "In Progress" -> "in progress"
      [] s = "Backlog" -> "backlog"
      [] OTHER -> s

Min(a, b) == IF a < b THEN a ELSE b

\* the least member of a non-empty set of numbers, 0 for the empty set
\* (the position of a first match: Array.find, String.match)
Least(S) == IF S = {} THEN 0 ELSE CHOOSE i \in S : \A j \in S : i <= j

\* String.prototype.trim
RECURSIVE TrimLeft(_)
TrimLeft(s) == IF s # <<>> /\ IsWs(Head(s)) THEN TrimLeft(Tail(s)) ELSE s
RECURSIVE TrimRight(_)
TrimRight(s) ==
    IF s # <<>> /\ IsWs(s[Len(s)]) THEN TrimRight(SubSeq(s, 1, Len(s) - 1)) ELSE s
Trim(s) == TrimRight(TrimLeft(s))

\* ------------------------------------------------- status <-> label mapping
\* variant: the to-do column mapped to a label name the reader does not know
getStatusLabelTodoUnspaced(status) ==
    CASE status = "backlog" -> "backlog"
      [] status = "todo" -> "todo"
      [] status = "in-progress" -> "in progress"
      [] status = "done" -> "done"
      [] OTHER -> "backlog"

\* GitHubBoards.getStatusLabel
getStatusLabel(status) ==
    CASE status = "backlog" -> "backlog"
      [] status = "todo" -> "to do"
      [] status = "in-progress" -> "in progress"
      [] status = "done" -> "done"
      [] OTHER -> "backlog"

\* variant: the in-progress test placed before the done test
getKanbanStatusInProgressFirst(labels) ==
    LET labelNames == {ToLowerCase(labels[i]) : i \in DOMAIN labels}
    IN  IF "in progress" \in labelNames THEN "in-progress"
        ELSE IF "done" \in labelNames THEN "done"
        ELSE IF "to do" \in labelNames THEN "todo"
        ELSE "backlog"

\* GitHubBoards.getKanbanStatus; labels is the issue's list of label names
getKanbanStatus(labels) ==
    LET labelNames == {ToLowerCase(labels[i]) : i \in DOMAIN labels}
    IN  IF "done" \in labelNames THEN "done"
        ELSE IF "in progress" \in labelNames THEN "in-progress"
        ELSE IF "to do" \in labelNames THEN "todo"
        ELSE "backlog"

\* ------------------------------------------------- metadata encoding
\* GitHubBoards.formatTaskBody
formatTaskBody(task) ==
    LET b0 == task.description
        b1 == IF task.priority # "" /\ task.priority # "medium"
              THEN b0 \o <<Tok("NL2"), Tok("PRI"), Tok("SP"), Tok(task.priority)>>
              ELSE b0
        b2 == IF task.dueDate # ""
              THEN b1 \o <<Tok("NL2"), Tok("DUE"), Tok("SP"), Tok(task.dueDate)>>
              ELSE b1
        metadata == [priority |-> task.priority,
                     dueDate |-> task.dueDate,
                     description |-> task.description,
                     comments |-> task.comments,
                     attachments |-> task.attachments]
    IN  b2 \o <<Tok("NL2"), Tok("OPEN"), JsonTok(metadata), Tok("CLOSE")>>

\* first "<!-- pixelKanban metadata:\n" that a "\n-->" follows, else 0
MatchOpen(body) ==
    LET o == Least({i \in DOMAIN body : body[i].k = "OPEN"})
    IN  IF o > 0 /\ \E c \in (o + 1)..Len(body) : body[c].k = "CLOSE" THEN o ELSE 0
\* the first "\n-->" after position o
MatchClose(body, o) ==
    Least({c \in (o + 1)..Len(body) : body[c].k = "CLOSE"})

\* variant: text that is no JSON read as null instead of raising
JsonParseKindNullOnError(text) ==
    LET t == Trim(text)
    IN  IF Len(t) = 1 /\ t[1].k = "JSON" THEN "obj" ELSE "null"

\* JSON.parse of a text: "obj", "null" or "throw"
JsonParseKind(text) ==
    LET t == Trim(text)
    IN  IF Len(t) = 1 /\ t[1].k = "JSON" THEN "obj"
        ELSE IF Len(t) = 1 /\ t[1].k = "JSONNULL" THEN "null"
        ELSE "throw"

\* body.replace(/<!--[\s\S]*?-->/, '')
StripComment(body) ==
    LET o == MatchOpen(body)
    IN  IF o = 0 THEN body
        ELSE SubSeq(body, 1, o - 1) \o SubSeq(body, MatchClose(body, o) + 1, Len(body))

\* variant: the fallback without the final trim() of the description
ParseFallbackUntrimmed(body) ==
    LET pm == Least({i \in 1..(Len(body) - 2) :
                            /\ body[i].k = "PRI" /\ body[i + 1].k = "SP"
                            /\ IsWordStart(body[i + 2])})
        dm == Least({i \in 1..(Len(body) - 2) :
                            /\ body[i].k = "DUE" /\ body[i + 1].k = "SP"
                            /\ IsDateWord(body[i + 2])})
    IN  [isNull |-> FALSE,
         priority |-> IF pm > 0 THEN WordPrefix(body[pm + 2]) ELSE "medium",
         dueDate |-> IF dm > 0 THEN body[dm + 2].k ELSE "",
         description |-> SelectSeq(StripComment(body), LAMBDA t : ~IsBold(t)),
         comments |-> <<>>,
         attachments |-> <<>>]

\* the regex fallback of parseTaskBody
ParseFallback(body) ==
    LET pm == Least({i \in 1..(Len(body) - 2) :
                            /\ body[i].k = "PRI" /\ body[i + 1].k = "SP"
                            /\ IsWordStart(body[i + 2])})
        dm == Least({i \in 1..(Len(body) - 2) :
                            /\ body[i].k = "DUE" /\ body[i + 1].k = "SP"
                            /\ IsDateWord(body[i + 2])})
    IN  [isNull |-> FALSE,
         priority |-> IF pm > 0 THEN WordPrefix(body[pm + 2]) ELSE "medium",
         dueDate |-> IF dm > 0 THEN body[dm + 2].k ELSE "",
         description |-> Trim(SelectSeq(StripComment(body), LAMBDA t : ~IsBold(t))),
         comments |-> <<>>,
         attachments |-> <<>>]

\* GitHubBoards.parseTaskBody.  A field the returned object lacks is the
\* empty string / empty list (the caller applies "|| default" to each);
\* isNull: the object is JSON null.
parseTaskBody(body) ==
    LET o == MatchOpen(body)
        text == SubSeq(body, o + 1, MatchClose(body, o) - 1)
        kind == IF o = 0 THEN "nomatch" ELSE JsonParseKind(text)
    IN  IF body = <<>>
        THEN [isNull |-> FALSE, priority |-> "", dueDate |-> "", description |-> <<>>,
              comments |-> <<>>, attachments |-> <<>>]
        ELSE IF kind = "obj"
        THEN LET meta == Trim(text)[1].m[1]
             IN  [isNull |-> FALSE, priority |-> meta.priority, dueDate |-> meta.dueDate,
                  description |-> meta.description, comments |-> meta.comments,
                  attachments |-> meta.attachments]
        ELSE IF kind = "null"
        THEN [isNull |-> TRUE, priority |-> "", dueDate |-> "", description |-> <<>>,
              comments |-> <<>>, attachments |-> <<>>]
        ELSE ParseFallback(body)

\* ------------------------------------------------- user store
\* digits-only strings (/^\d+$/) and their parseInt
NumStr == <<"1", "2", "3", "4", "5", "6", "7", "8", "9">>
IsNumeric(s) == \E n \in DOMAIN NumStr : NumStr[n] = s
ParseInt(s) == CHOOSE n \in DOMAIN NumStr : NumStr[n] = s

\* UserManager.getUser: the first user with that id, 0 when there is none
getUser(us, idNum) == Least({i \in DOMAIN us : us[i].id = idNum})

\* GitHubBoards.getAssigneeLogin; "" stands for null
getAssigneeLogin(assigneeId, us) ==
    IF assigneeId = "" THEN ""
    ELSE IF ~IsNumeric(assigneeId) THEN assigneeId
    ELSE LET u == getUser(us, ParseInt(assigneeId))
         IN  IF u > 0 /\ us[u].githubUsername # "" THEN us[u].githubUsername ELSE ""

\* ------------------------------------------------- the remote repository
\* The issue list is kept in the order the REST API returns it (newest first).
NextIssueNumber(iss) ==
    IF iss = <<>> THEN 1
    ELSE 1 + CHOOSE n \in {iss[i].number : i \in DOMAIN iss} :
                 \A i \in DOMAIN iss : iss[i].number <= n

FirstPage(s) == SubSeq(s, 1, Min(Len(s), PerPage))

\* GitHubAPI.getRepoIssues: one page, pull requests filtered out
getRepoIssues(iss) == SelectSeq(FirstPage(iss), LAMBDA x : ~x.pull_request)

\* GitHubAPI.getRepoLabels: one page of label names
getRepoLabels(labs) == FirstPage(labs)

\* variant: the last issue with the title instead of the first
findExistingIssueLast(existingIssues, title) ==
    LET hits == {i \in DOMAIN existingIssues : existingIssues[i].title = title}
    IN  IF hits = {} THEN 0 ELSE CHOOSE i \in hits : \A j \in hits : j <= i

\* existingIssues.find(i => i.title === task.title): its index, 0 for none
findExistingIssue(existingIssues, title) ==
    Least({i \in DOMAIN existingIssues : existingIssues[i].title = title})

\* [newLabelMap[statusLabel]].filter(Boolean), newLabelMap built by forEach
\* over updatedLabels (a later label with the same lower-case name wins)
statusLabels(updatedLabels, statusLabel) ==
    LET hits == {i \in DOMAIN updatedLabels : ToLowerCase(updatedLabels[i]) = statusLabel}
    IN  IF hits = {} THEN <<>>
        ELSE <<updatedLabels[CHOOSE i \in hits : \A j \in hits : j <= i]>>

NoReq == [t |-> "none", name |-> "", number |-> 0, title |-> "", body |-> <<>>,
          labels |-> <<>>, hasAssignees |-> FALSE, assignees |-> <<>>]
Req(t) == [NoReq EXCEPT !.t = t]

\* the assignees of the update branch: set only when the task has an
\* assignee that maps to a login
updateAssignees(task, us) ==
    LET login == getAssigneeLogin(task.assignee, us)
    IN  [has |-> login # "", list |-> IF login # "" THEN <<login>> ELSE <<>>]

\* the assignees of the create branch
createAssignees(task, us) ==
    LET login == getAssigneeLogin(task.assignee, us)
    IN  IF login # "" THEN <<login>> ELSE <<>>

\* pushBoard, the body of the task loop: the issue write issued for a task
issueWrite(task, existingIssues, updatedLabels, us) ==
    LET e == findExistingIssue(existingIssues, task.title)
        labs == statusLabels(updatedLabels, getStatusLabel(task.status))
    IN  IF e > 0
        THEN [NoReq EXCEPT !.t = "updateIssue",
                           !.number = existingIssues[e].number,
                           !.body = formatTaskBody(task),
                           !.labels = labs,
                           !.hasAssignees = updateAssignees(task, us).has,
                           !.assignees = updateAssignees(task, us).list]
        ELSE [NoReq EXCEPT !.t = "createIssue",
                           !.title = task.title,
                           !.body = formatTaskBody(task),
                           !.labels = labs,
                           !.hasAssignees = TRUE,
                           !.assignees = createAssignees(task, us)]

\* POST /issues and PATCH /issues/{number} as the service applies them
applyIssueWrite(iss, req) ==
    IF req.t = "createIssue"
    THEN <<[number |-> NextIssueNumber(iss), title |-> req.title, body |-> req.body,
            labels |-> req.labels, assignees |-> req.assignees,
            pull_request |-> FALSE]>> \o iss
    ELSE [i \in DOMAIN iss |->
            IF iss[i].number = req.number
            THEN [iss[i] EXCEPT !.body = req.body, !.labels = req.labels,
                                !.assignees = IF req.hasAssignees THEN req.assignees
                                              ELSE @]
            ELSE iss[i]]

\* ------------------------------------------------- pull
\* pullBoard: the task built from one issue, with local id n
pulledAssignee(issue) ==
    IF Len(issue.assignees) > 0 THEN issue.assignees[1] ELSE ""

pulledTask(issue, n) ==
    LET taskData == parseTaskBody(issue.body)
    IN  [id |-> n,
         title |-> issue.title,
         description |-> taskData.description,
         status |-> getKanbanStatus(issue.labels),
         priority |-> IF taskData.priority = "" THEN "medium" ELSE taskData.priority,
         assignee |-> pulledAssignee(issue),
         dueDate |-> taskData.dueDate,
         comments |-> taskData.comments,
         attachments |-> taskData.attachments,
         githubIssueNumber |-> issue.number]

firstLocalId == 1

\* variant: the loop stopping at the first body it cannot read and the tasks
\* built so far returned
pullResultPartial(fetched) ==
    LET bad == Least({i \in DOMAIN fetched : parseTaskBody(fetched[i].body).isNull})
        upto == IF bad = 0 THEN Len(fetched) ELSE bad - 1
    IN  [threw |-> FALSE,
         tasks |-> [i \in 1..upto |-> pulledTask(fetched[i], firstLocalId + i - 1)],
         nextTaskId |-> firstLocalId + upto]

\* pullBoard's loop over the fetched issues: threw is TRUE when reading a
\* field of a null taskData raises
pullResult(fetched) ==
    [threw |-> \E i \in DOMAIN fetched : parseTaskBody(fetched[i].body).isNull,
     tasks |-> [i \in DOMAIN fetched |-> pulledTask(fetched[i], firstLocalId + i - 1)],
     nextTaskId |-> firstLocalId + Len(fetched)]

\* ------------------------------------------------- state
VARIABLES
    tasks,                \* KanbanBoard.tasks
    nextTaskId,           \* KanbanBoard.nextTaskId
    users,                \* UserManager.users
    accessToken,          \* GitHubAPI.accessToken is set
    selectedRepo,         \* GitHubAPI.selectedRepo is set
    syncButtonsDisabled,  \* the disabled attribute of the push/pull/sync buttons
    syncStatus,           \* GitHubBoards.syncStatus
    issues,               \* the repository's issues, newest first
    labels,               \* the repository's label names
    ops,                  \* the push/pull/sync calls in flight, oldest first
    settled,              \* the outcome of the call that settled last; reset by a local edit
    quiet,                \* the last call to settle was a push that ran alone and
                          \* succeeded, and no task has been edited since
    edits,                \* local edits so far
    starts,               \* push/pull/sync clicks so far
    probe,                \* a function applied on its own: [fn, in, out]
    nextUserId,           \* UserManager.nextUserId
    roles,                \* UserManager.roles
    currentUserId,        \* UserManager.currentUserId, 0 for null
    taskModal,            \* the task modal: its form and KanbanBoard.currentTaskId,
                          \* currentAttachments
    savedBoard            \* BoardManager.savedBoards[name] of the one board name used

vars == <<tasks, nextTaskId, users, accessToken, selectedRepo, syncButtonsDisabled,
          syncStatus, issues, labels, ops, settled, quiet, edits, starts, probe,
          nextUserId, roles, currentUserId, taskModal, savedBoard>>

local == <<tasks, nextTaskId, users>>
conn == <<accessToken, selectedRepo, syncButtonsDisabled>>
remote == <<issues, labels>>
budget == <<edits, starts>>
store == <<nextUserId, roles, currentUserId, taskModal, savedBoard>>

\* the fields of the task form (#task-title, #task-description, ...)
NoForm == [title |-> "", description |-> <<>>, assignee |-> "", priority |-> "",
           dueDate |-> ""]

\* the task modal closed, as the page starts: taskId is form.dataset.taskId
\* and currentTaskId is KanbanBoard.currentTaskId (0 when absent / null)
NoModal == [open |-> FALSE, taskId |-> 0, currentTaskId |-> 0,
            currentAttachments |-> <<>>, form |-> NoForm]

\* no board saved under the name.  A saved board holds the arrays themselves:
\* live is TRUE while its tasks array is still KanbanBoard.tasks; otherwise
\* tasks is that older array and link[j] is the position in KanbanBoard.tasks
\* of the task object at position j of it (0 when the board no longer holds
\* that object).  usersLive / users likewise for UserManager.users.
\* snap is no field of the program: the value KanbanBoard.tasks had when the
\* board was saved, kept for the properties.
NoBoard == [has |-> FALSE, live |-> FALSE, tasks |-> <<>>, link |-> <<>>,
            nextTaskId |-> 0, usersLive |-> FALSE, users |-> <<>>, snap |-> <<>>]

NoProbe == [fn |-> "none", in |-> <<>>, out |-> "none"]

NoTask == [id |-> 0, title |-> "", description |-> <<>>, status |-> "", priority |-> "",
           assignee |-> "", dueDate |-> "", comments |-> <<>>, attachments |-> <<>>,
           githubIssueNumber |-> 0]

NoWrite == [t |-> "none", number |-> 0, task |-> NoTask, assignees |-> <<>>]

NoSettled == [kind |-> "none", ok |-> FALSE, phase |-> "", solo |-> FALSE,
              repeat |-> FALSE, roundTrip |-> FALSE, nCreated |-> 0, nLabels |-> 0,
              nPullReq |-> 0, pushOk |-> FALSE, wrote |-> NoWrite, taskCount |-> 0,
              remote |-> <<>>, before |-> <<>>, only |-> FALSE,
              editedInPull |-> FALSE, pushed |-> <<>>, nWrites |-> 0]

\* A call in flight.  req is the request it waits for; arr is the array the
\* push loop iterates once the board no longer holds that array ("live":
\* still KanbanBoard.tasks itself; "shared": an older array of the same task
\* objects; "detached": an older array of replaced objects).  solo, repeat,
\* nCreated, nLabels, nPullReq, pushOk, cur, wrote, only (no other call was
\* in flight with it), editedInPull (a task was edited while the pull of a
\* sync was outstanding), pushed (the repository's issues when the push
\* of a sync ended) and nWrites (the issue writes of the call that were
\* answered) record what the call did, for the properties below.
NewOp(kind, alone, again) ==
    [kind |-> kind, phase |-> IF kind = "pull" THEN "pull" ELSE "push",
     req |-> IF kind = "pull" THEN Req("pullIssues") ELSE Req("getIssues"),
     existingIssues |-> <<>>, labelMap |-> {}, li |-> 1, updatedLabels |-> <<>>,
     arr |-> <<>>, arrState |-> "live", idx |-> 0,
     solo |-> alone, repeat |-> again, nCreated |-> 0, nLabels |-> 0,
     nPullReq |-> IF kind = "pull" THEN 1 ELSE 0, pushOk |-> FALSE,
     cur |-> NoTask, wrote |-> NoWrite,
     only |-> alone, editedInPull |-> FALSE, pushed |-> <<>>, nWrites |-> 0]

Remove(s, i) == SubSeq(s, 1, i - 1) \o SubSeq(s, i + 1, Len(s))

\* the outcome record of a call that ends
Outcome(op, ok) ==
    [NoSettled EXCEPT !.kind = op.kind, !.ok = ok, !.phase = op.phase,
                      !.solo = op.solo, !.repeat = op.repeat,
                      !.nCreated = op.nCreated, !.nLabels = op.nLabels,
                      !.nPullReq = op.nPullReq, !.pushOk = op.pushOk,
                      !.wrote = op.wrote, !.only = op.only,
                      !.editedInPull = op.editedInPull, !.pushed = op.pushed,
                      !.nWrites = op.nWrites]

\* ------------------------------------------------- initial states
Meta0 == [priority |-> "low", dueDate |-> "", description |-> <<Tok("b")>>,
          comments |-> <<>>, attachments |-> <<>>]

TaskPool ==
    << [NoTask EXCEPT !.title = "A", !.description = <<Tok("a")>>, !.status = "todo",
                      !.priority = "high", !.assignee = "1", !.dueDate = "2024-01-01",
                      !.comments = <<"c1">>, !.attachments = <<"f1">>],
       [NoTask EXCEPT !.title = "B", !.status = "done", !.priority = "medium",
                      !.assignee = ""],
       [NoTask EXCEPT !.title = "A",
                      !.description = <<Tok("OPEN"), JsonTok(Meta0), Tok("CLOSE")>>,
                      !.status = "in-progress", !.priority = "medium", !.assignee = "2"],
       [NoTask EXCEPT !.title = "C", !.description = <<Tok("a"), Tok("NL2")>>,
                      !.status = "backlog", !.priority = "low", !.assignee = "bob"] >>

\* the task lists the board may start with: the pool's tasks in pool order,
\* at most MaxTasks of them, with the ids createTask gave them
RECURSIVE Picks(_, _)
Picks(from, n) ==
    IF n = 0 \/ from > Len(TaskPool) THEN {<<>>}
    ELSE Picks(from + 1, n) \cup {<<TaskPool[from]>> \o r : r \in Picks(from + 1, n - 1)}

WithIds(list) == [i \in DOMAIN list |-> [list[i] EXCEPT !.id = i]]

\* UserManager constructor: the default roles
DefaultRoles == <<"Developer", "Designer", "Manager", "QA">>

InitUsers ==
    << [id |-> 1, name |-> "Ann", email |-> "ann@x", githubUsername |-> "alice",
        role |-> "Developer"],
       [id |-> 2, name |-> "Bo", email |-> "bo@x", githubUsername |-> "",
        role |-> "Designer"] >>

Issue(n, title, body, labs, assignees, pr) ==
    [number |-> n, title |-> title, body |-> body, labels |-> labs,
     assignees |-> assignees, pull_request |-> pr]

InitRemotes ==
    { [issues |-> <<>>, labels |-> <<>>],
      [issues |-> << Issue(2, "A", <<Tok("b")>>, <<"Done", "in progress">>,
                           <<"alice", "carol">>, FALSE),
                     Issue(1, "C", <<>>, <<"bug">>, <<>>, TRUE) >>,
       labels |-> <<"backlog", "Done", "in progress", "bug">>],
      [issues |-> << Issue(3, "A", <<Tok("a"), Tok("NL2"), Tok("PRI"), Tok("SP"),
                                     Tok("high")>>, <<"To Do", "high-priority">>,
                           <<"carol">>, FALSE),
                     Issue(2, "A", <<>>, <<"backlog", "To Do">>, <<>>, FALSE),
                     Issue(1, "B", <<Tok("b")>>, <<>>, <<"alice">>, FALSE) >>,
       labels |-> <<"backlog", "To Do", "in progress", "done", "high-priority">>] }

Init ==
    /\ \E list \in Picks(1, MaxTasks) :
          /\ tasks = WithIds(list)
          /\ nextTaskId = Len(list) + 1
    /\ users = InitUsers
    /\ accessToken = TRUE
    /\ selectedRepo = TRUE
    /\ syncButtonsDisabled = FALSE
    /\ syncStatus = "idle"
    /\ \E r \in InitRemotes : issues = r.issues /\ labels = r.labels
    /\ ops = <<>>
    /\ settled = NoSettled
    /\ quiet = FALSE
    /\ edits = 0
    /\ starts = 0
    /\ probe = NoProbe
    /\ nextUserId = Len(InitUsers) + 1 /\ savedBoard = NoBoard
    /\ roles = DefaultRoles /\ currentUserId = 0 /\ taskModal = NoModal

\* ------------------------------------------------- the GitHub modal
\* change handler of #github-repo-select: a repository enables the buttons
\* (selectRepo, enableSyncButtons), the empty choice disables them
RepoSelectChange ==
    /\ \E chosen \in BOOLEAN :
          /\ syncButtonsDisabled' = ~chosen
          /\ selectedRepo' = (selectedRepo \/ chosen)
          /\ syncButtonsDisabled' # syncButtonsDisabled
    /\ UNCHANGED <<local, accessToken, syncStatus, remote, ops, settled, quiet, budget, probe, store>>

\* click handlers of #github-push-btn, #github-pull-btn, #github-sync-btn up
\* to the first request of pushBoard / pullBoard.  A click needs an enabled
\* button; nothing in the handlers looks at the calls already in flight.
\* variant: the repository looked at before the token
preconditionErrorRepoFirst(token, repo) ==
    IF ~repo THEN "RepositoryNotSelected"
    ELSE IF ~token THEN "Unauthenticated"
    ELSE ""

\* the two throws at the head of pushBoard and of pullBoard: 'Not connected
\* to GitHub' (Unauthenticated), 'No repository selected'
\* (RepositoryNotSelected), "" when neither is thrown
preconditionError(token, repo) ==
    IF ~token THEN "Unauthenticated"
    ELSE IF ~repo THEN "RepositoryNotSelected"
    ELSE ""

\* pushBoard / pullBoard / syncBoard called, up to the first request
Call(kind) ==
    /\ Len(ops) < MaxOps
    /\ starts < MaxStarts
    /\ starts' = starts + 1
    /\ IF preconditionError(accessToken, selectedRepo) = ""
       THEN /\ syncStatus' = "syncing"
            /\ ops' = Append([j \in DOMAIN ops |-> [ops[j] EXCEPT !.solo = FALSE,
                                                                  !.only = FALSE]],
                             NewOp(kind, ops = <<>>, kind = "push" /\ quiet /\ ops = <<>>))
            /\ UNCHANGED <<settled, quiet>>
       ELSE /\ settled' = [NoSettled EXCEPT !.kind = kind,
                             !.phase = preconditionError(accessToken, selectedRepo)]
            /\ quiet' = FALSE
            /\ UNCHANGED <<syncStatus, ops>>
    /\ UNCHANGED <<local, conn, remote, edits, probe, store>>

Click(kind) == ~syncButtonsDisabled /\ Call(kind)

ClickPush == Click("push")
ClickPull == Click("pull")
ClickSync == Click("sync")

\* ------------------------------------------------- pushBoard
statusLabelNames == <<"backlog", "to do", "in progress", "done">>

\* the array the push loop iterates
TaskArray(op) == IF op.arrState = "live" THEN tasks ELSE op.arr

\* "for (const task of kanbanBoard.tasks)" has taken its array: the loop is
\* at a task.  Before that the call reads KanbanBoard.tasks as it then is.
LoopStarted(op) == op.idx > 0

\* variant: the pull started whatever the push did
syncContinuesAlways(pushSucceeded) == TRUE

\* syncBoard: pullBoard is called once "await this.pushBoard" has returned
syncContinues(pushSucceeded) == pushSucceeded

\* the call ends: the handler's catch, or its last statements
Settle(i, op, ok) ==
    /\ ops' = Remove(ops, i)
    /\ settled' = [Outcome(op, ok) EXCEPT !.taskCount = Len(tasks)]
    /\ quiet' = (ok /\ op.kind = "push" /\ op.solo)

\* pullBoard as called by syncBoard, up to its request
BeginPull(i, op) ==
    IF preconditionError(accessToken, selectedRepo) = ""
    THEN /\ ops' = [ops EXCEPT ![i] = [op EXCEPT !.phase = "pull",
                                                 !.req = Req("pullIssues"),
                                                 !.nPullReq = @ + 1,
                                                 !.pushed = issues']]
         /\ syncStatus' = "syncing"
         /\ UNCHANGED <<settled, quiet>>
    ELSE /\ Settle(i, op, FALSE)
         /\ UNCHANGED syncStatus

\* the status-label loop from position op.li: the next createLabel, or the
\* second getRepoLabels
LabelLoop(op) ==
    LET m == Least({j \in op.li..Len(statusLabelNames) :
                       statusLabelNames[j] \notin op.labelMap})
    IN  IF m = 0 THEN [op EXCEPT !.req = Req("getLabels2"), !.li = Len(statusLabelNames) + 1]
        ELSE [op EXCEPT !.req = [NoReq EXCEPT !.t = "createLabel",
                                              !.name = statusLabelNames[m]],
                        !.li = m + 1]

\* the task loop from position op.idx + 1: the next issue write, or the end
\* of pushBoard and what its caller does next
TaskLoop(i, op) ==
    LET arr == TaskArray(op)
        n == op.idx + 1
    IN  IF n <= Len(arr)
        THEN /\ ops' = [ops EXCEPT ![i] =
                          [op EXCEPT !.idx = n, !.cur = arr[n],
                                     !.req = issueWrite(arr[n], op.existingIssues,
                                                        op.updatedLabels, users)]]
             /\ UNCHANGED <<syncStatus, settled, quiet>>
        ELSE IF op.kind = "sync" /\ syncContinues(TRUE)
        THEN BeginPull(i, [op EXCEPT !.pushOk = TRUE, !.idx = n])
        ELSE /\ Settle(i, [op EXCEPT !.pushOk = TRUE], TRUE)
             /\ syncStatus' = "success"

RespGetIssues ==
    \E i \in DOMAIN ops :
        /\ ops[i].req.t = "getIssues"
        /\ ops' = [ops EXCEPT ![i] = [@ EXCEPT !.existingIssues = getRepoIssues(issues),
                                               !.req = Req("getLabels")]]
        /\ UNCHANGED <<local, conn, syncStatus, remote, settled, quiet, budget, probe, store>>

RespGetLabels ==
    \E i \in DOMAIN ops :
        /\ ops[i].req.t = "getLabels"
        /\ LET existingLabels == getRepoLabels(labels)
               lm == {ToLowerCase(existingLabels[j]) : j \in DOMAIN existingLabels}
           IN  ops' = [ops EXCEPT ![i] = LabelLoop([@ EXCEPT !.labelMap = lm])]
        /\ UNCHANGED <<local, conn, syncStatus, remote, settled, quiet, budget, probe, store>>

\* POST /labels answers 422 when the repository has a label of that name
\* (names compare case-insensitively)
RespCreateLabel ==
    \E i \in DOMAIN ops :
        /\ ops[i].req.t = "createLabel"
        /\ \A j \in DOMAIN labels : ToLowerCase(labels[j]) # ToLowerCase(ops[i].req.name)
        /\ labels' = Append(labels, ops[i].req.name)
        /\ ops' = [ops EXCEPT ![i] = LabelLoop([@ EXCEPT !.nLabels = @ + 1])]
        /\ UNCHANGED <<local, conn, syncStatus, issues, settled, quiet, budget, probe, store>>

RespGetLabels2 ==
    \E i \in DOMAIN ops :
        /\ ops[i].req.t = "getLabels2"
        /\ UNCHANGED <<local, conn, remote, budget, probe, store>>
        /\ TaskLoop(i, [ops[i] EXCEPT !.updatedLabels = getRepoLabels(labels),
                                      !.req = NoReq])

RespIssueWrite ==
    \E i \in DOMAIN ops :
        LET op == ops[i]
            created == op.req.t = "createIssue"
            number == IF created THEN NextIssueNumber(issues) ELSE op.req.number
        IN  /\ op.req.t \in {"createIssue", "updateIssue"}
            /\ issues' = applyIssueWrite(issues, op.req)
            /\ TaskLoop(i, [op EXCEPT
                   !.nCreated = IF created THEN @ + 1 ELSE @,
                   !.nWrites = @ + 1,
                   !.wrote = [t |-> op.req.t, number |-> number, task |-> op.cur,
                              assignees |-> op.req.assignees],
                   !.req = NoReq])
            /\ UNCHANGED <<local, conn, labels, budget, probe, store>>

\* ------------------------------------------------- pullBoard
\* variant: the pulled tasks added to the live list
applyPullMerged(result, live) == live \o result.tasks

\* window.kanbanBoard.tasks = result.tasks in the pull and sync handlers
applyPull(result, live) == result.tasks

\* the response to pullBoard's getRepoIssues, the loop that builds the task
\* list, and the pull / sync handler's assignment of the result
RespPullIssues ==
    \E i \in DOMAIN ops :
        LET op == ops[i]
            result == pullResult(getRepoIssues(issues))
        IN  /\ op.req.t = "pullIssues"
            /\ IF result.threw
               THEN /\ Settle(i, [op EXCEPT !.phase = "parse"], FALSE)
                    /\ syncStatus' = "error"
                    /\ UNCHANGED <<tasks, nextTaskId>>
               ELSE /\ tasks' = applyPull(result, tasks)
                    /\ nextTaskId' = result.nextTaskId
                    /\ syncStatus' = "success"
                    /\ ops' = [j \in DOMAIN Remove(ops, i) |->
                                 LET o == Remove(ops, i)[j]
                                 IN  IF LoopStarted(o)
                                     THEN [o EXCEPT !.solo = FALSE,
                                                    !.arr = TaskArray(o),
                                                    !.arrState = "detached"]
                                     ELSE [o EXCEPT !.solo = FALSE]]
                    /\ settled' = [Outcome(op, TRUE) EXCEPT
                                     !.taskCount = Len(result.tasks),
                                     !.roundTrip = op.solo /\ (op.kind = "sync" \/ quiet),
                                     !.remote = issues,
                                     !.before = tasks]
                    /\ quiet' = FALSE
            /\ UNCHANGED <<users, conn, remote, budget, probe, store>>

\* ------------------------------------------------- failures
\* variant: a failed issue write skipped, the loop going on with the next task
RequestFailsSkipsTask ==
    \E i \in DOMAIN ops :
        LET op == ops[i]
        IN  /\ op.req.t # "none"
            /\ UNCHANGED remote
            /\ IF op.req.t \in {"createIssue", "updateIssue"}
               THEN TaskLoop(i, [op EXCEPT !.req = NoReq])
               ELSE /\ Settle(i, op, FALSE)
                    /\ syncStatus' = "error"
            /\ UNCHANGED <<local, conn, budget, probe, store>>

\* a request of the call is answered with an error (or not at all): request
\* throws, the catch of pushBoard / pullBoard sets the status and rethrows
RequestFails ==
    \E i \in DOMAIN ops :
        LET op == ops[i]
        IN  /\ op.req.t # "none"
            /\ UNCHANGED remote
            /\ IF op.kind = "sync" /\ op.phase = "push" /\ syncContinues(FALSE)
               THEN BeginPull(i, op)
               ELSE /\ Settle(i, op, FALSE)
                    /\ syncStatus' = "error"
            /\ UNCHANGED <<local, conn, budget, probe, store>>

\* ------------------------------------------------- local edits
Touch(op) ==
    [op EXCEPT !.solo = FALSE,
               !.editedInPull = @ \/ (op.kind = "sync" /\ op.phase = "pull")]

NewTaskData ==
    { [NoTask EXCEPT !.title = "B", !.description = <<Tok("b")>>, !.status = "todo",
                     !.priority = "high", !.assignee = "1"] }

\* KanbanBoard.createTask: the task is pushed onto the live array
CreateTask ==
    /\ edits < MaxEdits
    /\ \E data \in NewTaskData :
          tasks' = Append(tasks, [data EXCEPT !.id = nextTaskId])
    /\ nextTaskId' = nextTaskId + 1
    /\ ops' = [j \in DOMAIN ops |-> Touch(ops[j])]
    /\ settled' = NoSettled
    /\ quiet' = FALSE
    /\ edits' = edits + 1
    /\ UNCHANGED <<users, conn, syncStatus, remote, starts, probe, store>>

\* KanbanBoard.deleteTask: filter makes a new array of the same task objects
DeleteTask ==
    /\ edits < MaxEdits
    /\ \E id \in {tasks[j].id : j \in DOMAIN tasks} :
          tasks' = SelectSeq(tasks, LAMBDA t : t.id # id)
    /\ ops' = [j \in DOMAIN ops |->
                 IF ops[j].arrState = "live" /\ LoopStarted(ops[j])
                 THEN [Touch(ops[j]) EXCEPT !.arr = tasks, !.arrState = "shared"]
                 ELSE Touch(ops[j])]
    /\ settled' = NoSettled
    /\ quiet' = FALSE
    /\ edits' = edits + 1
    /\ UNCHANGED <<nextTaskId, users, conn, syncStatus, remote, starts, probe, store>>

\* updateTask: Object.assign on the first task with that id
assignFirst(list, id, newStatus) ==
    LET k == Least({j \in DOMAIN list : list[j].id = id})
    IN  [j \in DOMAIN list |-> IF j = k THEN [list[j] EXCEPT !.status = newStatus]
                               ELSE list[j]]

\* KanbanBoard.moveTask (updateTask with a status): the task object is
\* changed in place, so an older array of the same objects shows it too
MoveTask ==
    /\ edits < MaxEdits
    /\ \E id \in {tasks[j].id : j \in DOMAIN tasks}, newStatus \in {"done"} :
          /\ tasks' = assignFirst(tasks, id, newStatus)
          /\ tasks' # tasks
          /\ ops' = [j \in DOMAIN ops |->
                       IF ops[j].arrState = "shared"
                       THEN [Touch(ops[j]) EXCEPT !.arr = assignFirst(@, id, newStatus)]
                       ELSE Touch(ops[j])]
    /\ settled' = NoSettled
    /\ quiet' = FALSE
    /\ edits' = edits + 1
    /\ UNCHANGED <<nextTaskId, users, conn, syncStatus, remote, starts, probe, store>>

Next ==
    \/ RepoSelectChange
    \/ ClickPush
    \/ ClickPull
    \/ ClickSync
    \/ RespGetIssues
    \/ RespGetLabels
    \/ RespCreateLabel
    \/ RespGetLabels2
    \/ RespIssueWrite
    \/ RespPullIssues
    \/ RequestFails
    \/ CreateTask
    \/ DeleteTask
    \/ MoveTask

Spec == Init /\ [][Next]_vars

\* ------------------------------------------------- getKanbanStatus on its own
MaxLabels == 3       \* labels on a probed issue

LabelNames == {"backlog", "Backlog", "to do", "To Do", "in progress", "In Progress",
               "done", "Done", "bug"}

RECURSIVE SeqsUpTo(_, _)
SeqsUpTo(S, n) ==
    IF n = 0 THEN {<<>>}
    ELSE SeqsUpTo(S, n - 1) \cup
         {Append(q, x) : q \in {r \in SeqsUpTo(S, n - 1) : Len(r) = n - 1}, x \in S}

InitStatus ==
    /\ tasks = <<>> /\ nextTaskId = 1 /\ users = InitUsers
    /\ accessToken = TRUE /\ selectedRepo = TRUE /\ syncButtonsDisabled = FALSE
    /\ syncStatus = "idle" /\ issues = <<>> /\ labels = <<>> /\ ops = <<>>
    /\ settled = NoSettled /\ quiet = FALSE /\ edits = 0 /\ starts = 0
    /\ \E labs \in SeqsUpTo(LabelNames, MaxLabels) :
          probe = [fn |-> "getKanbanStatus", in |-> labs, out |-> "none"]
    /\ nextUserId = Len(InitUsers) + 1 /\ savedBoard = NoBoard
    /\ roles = DefaultRoles /\ currentUserId = 0 /\ taskModal = NoModal

ApplyGetKanbanStatus ==
    /\ probe.fn = "getKanbanStatus"
    /\ probe.out = "none"
    /\ probe' = [probe EXCEPT !.out = getKanbanStatus(probe.in)]
    /\ UNCHANGED <<local, conn, syncStatus, remote, ops, settled, quiet, budget, store>>

NextStatus == ApplyGetKanbanStatus

SpecStatus == InitStatus /\ [][NextStatus]_vars

\* ------------------------------------------------- a board as long as a page
\* One board of PerPage tasks and one of PerPage + 1, all titles different,
\* against a repository that has the status labels and no issue; the calls
\* are started one after the other.
PageTask(i) ==
    [NoTask EXCEPT !.id = i, !.title = ToString(i), !.status = "todo",
                   !.priority = "medium"]

InitPage ==
    /\ \E n \in {PerPage, PerPage + 1} :
          /\ tasks = [i \in 1..n |-> PageTask(i)]
          /\ nextTaskId = n + 1
    /\ users = InitUsers
    /\ accessToken = TRUE /\ selectedRepo = TRUE /\ syncButtonsDisabled = FALSE
    /\ syncStatus = "idle"
    /\ issues = <<>> /\ labels = statusLabelNames
    /\ ops = <<>> /\ settled = NoSettled /\ quiet = FALSE
    /\ edits = 0 /\ starts = 0 /\ probe = NoProbe
    /\ nextUserId = Len(InitUsers) + 1 /\ savedBoard = NoBoard
    /\ roles = DefaultRoles /\ currentUserId = 0 /\ taskModal = NoModal

\* a click on the push or the pull button once nothing is in flight
ClickWhenIdle == ops = <<>> /\ \E kind \in {"push", "pull"} : Click(kind)

NextPage ==
    \/ ClickWhenIdle
    \/ RespGetIssues
    \/ RespGetLabels
    \/ RespGetLabels2
    \/ RespIssueWrite
    \/ RespPullIssues

SpecPage == InitPage /\ [][NextPage]_vars

\* ------------------------------------------------- the adapter called directly
\* pushBoard, pullBoard and syncBoard called on a page that has just been
\* loaded: the token and the repository are whatever localStorage and the
\* configuration held (either may be missing), the buttons are still
\* disabled.
InitPre ==
    /\ \E list \in Picks(1, MaxTasks) :
          /\ tasks = WithIds(list)
          /\ nextTaskId = Len(list) + 1
    /\ users = InitUsers
    /\ accessToken \in BOOLEAN
    /\ selectedRepo \in BOOLEAN
    /\ syncButtonsDisabled = TRUE
    /\ syncStatus = "idle"
    /\ \E r \in InitRemotes : issues = r.issues /\ labels = r.labels
    /\ ops = <<>> /\ settled = NoSettled /\ quiet = FALSE
    /\ edits = 0 /\ starts = 0 /\ probe = NoProbe
    /\ nextUserId = Len(InitUsers) + 1 /\ savedBoard = NoBoard
    /\ roles = DefaultRoles /\ currentUserId = 0 /\ taskModal = NoModal

CallPush == Call("push")
CallPull == Call("pull")
CallSync == Call("sync")

NextPre ==
    \/ CallPush
    \/ CallPull
    \/ CallSync
    \/ RespGetIssues
    \/ RespGetLabels
    \/ RespCreateLabel
    \/ RespGetLabels2
    \/ RespIssueWrite
    \/ RespPullIssues
    \/ RequestFails

SpecPre == InitPre /\ [][NextPre]_vars

\* ------------------------------------------------- pulls of issue bodies
\* issue bodies a repository may hold: none, plain text, a metadata block,
\* text and a block that is no JSON, a block holding JSON null, an empty block
PullBodies ==
    { <<>>,
      <<Tok("a")>>,
      <<Tok("NL2"), Tok("OPEN"), JsonTok(Meta0), Tok("CLOSE")>>,
      <<Tok("a"), Tok("NL2"), Tok("OPEN"), Tok("BADJSON"), Tok("CLOSE")>>,
      <<Tok("OPEN"), Tok("JSONNULL"), Tok("CLOSE")>>,
      <<Tok("OPEN"), Tok("CLOSE")>> }

InitPull ==
    /\ \E list \in Picks(1, MaxTasks) :
          /\ tasks = WithIds(list)
          /\ nextTaskId = Len(list) + 1
    /\ users = InitUsers
    /\ accessToken = TRUE /\ selectedRepo = TRUE /\ syncButtonsDisabled = FALSE
    /\ syncStatus = "idle"
    /\ \E b1 \in PullBodies, b2 \in PullBodies :
          issues = << Issue(2, "D", b1, <<"done">>, <<"carol">>, FALSE),
                      Issue(1, "E", b2, <<>>, <<>>, FALSE) >>
    /\ labels = statusLabelNames
    /\ ops = <<>> /\ settled = NoSettled /\ quiet = FALSE
    /\ edits = 0 /\ starts = 0 /\ probe = NoProbe
    /\ nextUserId = Len(InitUsers) + 1 /\ savedBoard = NoBoard
    /\ roles = DefaultRoles /\ currentUserId = 0 /\ taskModal = NoModal

NextPull ==
    \/ ClickPull
    \/ ClickSync
    \/ RespGetIssues
    \/ RespGetLabels
    \/ RespGetLabels2
    \/ RespIssueWrite
    \/ RespPullIssues
    \/ RequestFails

SpecPull == InitPull /\ [][NextPull]_vars

\* ------------------------------------------------- parseTaskBody on its own
MaxText == 3         \* tokens of text before the metadata block

TextTokens ==
    {Tok("a"), Tok("SP"), Tok("NL2"), Tok("PRI"), Tok("high"), Tok("DUE"),
     Tok("2024-01-01"), Tok("BOLD")}

\* what may stand where the metadata block stands: nothing, a block that is
\* no JSON, an empty block, a block of a metadata object, a block of null,
\* a block that is never closed
Blocks ==
    { <<>>,
      <<Tok("OPEN"), Tok("BADJSON"), Tok("CLOSE")>>,
      <<Tok("OPEN"), Tok("CLOSE")>>,
      <<Tok("OPEN"), JsonTok(Meta0), Tok("CLOSE")>>,
      <<Tok("OPEN"), Tok("JSONNULL"), Tok("CLOSE")>>,
      <<Tok("OPEN"), Tok("BADJSON")>> }

Tails == { <<>>, <<Tok("b")>>, <<Tok("OPEN"), JsonTok(Meta0), Tok("CLOSE")>> }

InitParse ==
    /\ tasks = <<>> /\ nextTaskId = 1 /\ users = InitUsers
    /\ accessToken = TRUE /\ selectedRepo = TRUE /\ syncButtonsDisabled = FALSE
    /\ syncStatus = "idle" /\ issues = <<>> /\ labels = <<>> /\ ops = <<>>
    /\ settled = NoSettled /\ quiet = FALSE /\ edits = 0 /\ starts = 0
    /\ \E text \in SeqsUpTo(TextTokens, MaxText), block \in Blocks, tail \in Tails :
          probe = [fn |-> "parseTaskBody", in |-> text \o block \o tail, out |-> <<>>]
    /\ nextUserId = Len(InitUsers) + 1 /\ savedBoard = NoBoard
    /\ roles = DefaultRoles /\ currentUserId = 0 /\ taskModal = NoModal

\* probe.out becomes the one-element list of the returned record
ApplyParseTaskBody ==
    /\ probe.fn = "parseTaskBody"
    /\ probe.out = <<>>
    /\ probe' = [probe EXCEPT !.out = <<parseTaskBody(probe.in)>>]
    /\ UNCHANGED <<local, conn, syncStatus, remote, ops, settled, quiet, budget, store>>

NextParse == ApplyParseTaskBody

SpecParse == InitParse /\ [][NextParse]_vars

\* ------------------------------------------------- one issue pulled on its own
\* the label lists of the probed issue
PulledLabels == { <<"to do", "high-priority">>, <<>>, <<"Done", "in progress">> }

InitPulled ==
    /\ tasks = <<>> /\ nextTaskId = 1 /\ users = InitUsers
    /\ accessToken = TRUE /\ selectedRepo = TRUE /\ syncButtonsDisabled = FALSE
    /\ syncStatus = "idle" /\ issues = <<>> /\ labels = <<>> /\ ops = <<>>
    /\ settled = NoSettled /\ quiet = FALSE /\ edits = 0 /\ starts = 0
    /\ \E text \in SeqsUpTo(TextTokens, MaxText), block \in Blocks, labs \in PulledLabels :
          probe = [fn |-> "pulledTask",
                   in |-> [number |-> 1, title |-> "Fix login bug", body |-> text \o block,
                           labels |-> labs, assignees |-> <<>>, pull_request |-> FALSE],
                   out |-> <<>>]
    /\ nextUserId = Len(InitUsers) + 1 /\ savedBoard = NoBoard
    /\ roles = DefaultRoles /\ currentUserId = 0 /\ taskModal = NoModal

\* the body of pullBoard's loop for the probed issue: probe.out becomes the
\* one-element list of the task pushed; reading a field of JSON null throws
ApplyPulledTask ==
    /\ probe.fn = "pulledTask"
    /\ probe.out = <<>>
    /\ probe' = IF parseTaskBody(probe.in.body).isNull
                THEN [probe EXCEPT !.fn = "pulledTaskThrew"]
                ELSE [probe EXCEPT !.out = <<pulledTask(probe.in, firstLocalId)>>]
    /\ UNCHANGED <<local, conn, syncStatus, remote, ops, settled, quiet, budget, store>>

NextPulled == ApplyPulledTask

SpecPulled == InitPulled /\ [][NextPulled]_vars

\* ------------------------------------------------- the stores on their own
\* Task store, user store and the saved board, driven by the buttons of the
\* page one step after the other; no GitHub call is in flight.
MaxStoreEdits == 5   \* store operations per behaviour

\* the operation a step carried out, with its argument: kept in probe
Did(fn, args) == [fn |-> fn, in |-> args, out |-> "none"]

\* updateTask's Object.assign of one field, on the task objects at positions K
assignAt(list, K, field, value) ==
    [j \in DOMAIN list |-> IF j \in K THEN [list[j] EXCEPT ![field] = value]
                           ELSE list[j]]

\* updateTask's tasks.find(t => t.id === id): the position of the first task
\* with that id, as a set (empty when there is none)
findTask(list, id) ==
    IF \E j \in DOMAIN list : list[j].id = id
    THEN {Least({j \in DOMAIN list : list[j].id = id})}
    ELSE {}

\* the saved board after Object.assign on the task objects at positions K of
\* KanbanBoard.tasks: an older array holding those objects shows the change
savedAssign(K, field, value) ==
    IF savedBoard.has /\ ~savedBoard.live
    THEN [savedBoard EXCEPT
            !.tasks = assignAt(@, {j \in DOMAIN @ : savedBoard.link[j] \in K},
                               field, value)]
    ELSE savedBoard

\* the saved board after KanbanBoard.tasks became a new array: keep[k] is the
\* position in the new array of the object at position k of the old one, 0
\* when the new array does not hold it
savedRebind(keep) ==
    IF ~savedBoard.has THEN savedBoard
    ELSE IF savedBoard.live
    THEN [savedBoard EXCEPT !.live = FALSE,
                            !.tasks = tasks,
                            !.link = keep]
    ELSE [savedBoard EXCEPT
            !.link = [j \in DOMAIN @ |-> IF @[j] = 0 THEN 0 ELSE keep[@[j]]]]

\* the value a <select> of the users shows after it was set to v: v when an
\* option of that value exists ('' or the id of a user), '' otherwise
selectValue(v, us) ==
    IF v = "" \/ (IsNumeric(v) /\ \E i \in DOMAIN us : us[i].id = ParseInt(v))
    THEN v ELSE ""

\* KanbanBoard.createTask from the task form, the assignee being a choice
\* of #task-assignee
StoreCreateTask ==
    /\ edits < MaxStoreEdits
    /\ \E data \in NewTaskData :
          tasks' = Append(tasks, [data EXCEPT !.id = nextTaskId,
                                              !.assignee = selectValue(@, users)])
    /\ nextTaskId' = nextTaskId + 1
    /\ edits' = edits + 1
    /\ probe' = Did("createTask", <<>>)
    /\ UNCHANGED <<users, conn, syncStatus, remote, ops, settled, quiet, starts,
                   store>>

\* KanbanBoard.deleteTask: filter makes a new array of the same task objects
StoreDeleteTask ==
    /\ edits < MaxStoreEdits
    /\ \E id \in {tasks[j].id : j \in DOMAIN tasks} :
          /\ tasks' = SelectSeq(tasks, LAMBDA t : t.id # id)
          /\ savedBoard' =
                savedRebind([k \in DOMAIN tasks |->
                    IF tasks[k].id = id THEN 0
                    ELSE Cardinality({j \in 1..k : tasks[j].id # id})])
    /\ edits' = edits + 1
    /\ probe' = Did("deleteTask", <<>>)
    /\ UNCHANGED <<nextTaskId, users, conn, syncStatus, remote, ops, settled, quiet,
                   starts, nextUserId, roles,
                   currentUserId, taskModal>>

\* the columns a card can be dropped on
DropColumns == {"todo", "done"}

\* KanbanBoard.handleDrop -> moveTask -> updateTask
StoreMoveTask ==
    /\ edits < MaxStoreEdits
    /\ \E id \in {tasks[j].id : j \in DOMAIN tasks}, newStatus \in DropColumns :
          /\ tasks' = assignAt(tasks, findTask(tasks, id), "status", newStatus)
          /\ tasks' # tasks
          /\ savedBoard' = savedAssign(findTask(tasks, id), "status", newStatus)
    /\ edits' = edits + 1
    /\ probe' = Did("moveTask", <<>>)
    /\ UNCHANGED <<nextTaskId, users, conn, syncStatus, remote, ops, settled, quiet,
                   starts, nextUserId, roles,
                   currentUserId, taskModal>>

\* BoardManager.saveBoard: the saved board holds the arrays of the two
\* stores themselves and the value of nextTaskId at this moment
SaveBoard ==
    /\ edits < MaxStoreEdits
    /\ savedBoard' = [has |-> TRUE, live |-> TRUE, tasks |-> <<>>, link |-> <<>>,
                      nextTaskId |-> nextTaskId, usersLive |-> TRUE, users |-> <<>>,
                      snap |-> tasks]
    /\ edits' = edits + 1
    /\ probe' = Did("saveBoard", <<>>)
    /\ UNCHANGED <<local, conn, syncStatus, remote, ops, settled, quiet, starts,
                   nextUserId, roles,
                   currentUserId, taskModal>>

\* BoardManager.loadBoard: the arrays of the saved board become the stores
LoadBoard ==
    /\ edits < MaxStoreEdits
    /\ savedBoard.has
    /\ tasks' = IF savedBoard.live THEN tasks ELSE savedBoard.tasks
    /\ nextTaskId' = IF savedBoard.nextTaskId = 0 THEN 1 ELSE savedBoard.nextTaskId
    /\ users' = IF savedBoard.usersLive THEN users ELSE savedBoard.users
    /\ savedBoard' = [savedBoard EXCEPT !.live = TRUE, !.tasks = <<>>, !.link = <<>>,
                                        !.usersLive = TRUE, !.users = <<>>]
    /\ edits' = edits + 1
    /\ probe' = Did("loadBoard", <<>>)
    /\ UNCHANGED <<conn, syncStatus, remote, ops, settled, quiet, starts,
                   nextUserId, roles,
                   currentUserId, taskModal>>

\* the board files offered to the import: what exportBoardJSON of another
\* installation wrote, a file without a nextTaskId (0), and a file with a
\* task in a column this board does not have
BoardFiles ==
    { [tasks |-> << [NoTask EXCEPT !.id = 1, !.title = "X", !.status = "todo",
                                   !.priority = "low", !.assignee = "1"] >>,
       nextTaskId |-> 2,
       users |-> << [id |-> 1, name |-> "Cy", email |-> "cy@x",
                     githubUsername |-> "", role |-> "Developer"] >>],
      [tasks |-> << [NoTask EXCEPT !.id = 1, !.title = "Y", !.status = "backlog",
                                   !.priority = "medium"],
                    [NoTask EXCEPT !.id = 2, !.title = "Z", !.status = "done",
                                   !.priority = "medium", !.assignee = "1"] >>,
       nextTaskId |-> 0,
       users |-> << [id |-> 1, name |-> "Ann", email |-> "ann@x",
                     githubUsername |-> "", role |-> "Developer"] >>],
      [tasks |-> << [NoTask EXCEPT !.id = 1, !.title = "W", !.status = "archived",
                                   !.priority = "medium"] >>,
       nextTaskId |-> 2,
       users |-> <<>>] }

\* importBoardJSON's forEach over the users of the file: a user is pushed
\* when no user of the store has its email
RECURSIVE mergeUsers(_, _)
mergeUsers(us, incoming) ==
    IF incoming = <<>> THEN us
    ELSE LET user == Head(incoming)
         IN  mergeUsers(IF \E i \in DOMAIN us : us[i].email = user.email
                        THEN us ELSE Append(us, user),
                        Tail(incoming))

\* BoardManager.importBoardJSON, reader.onload
ImportBoardJSON ==
    /\ edits < MaxStoreEdits
    /\ \E boardData \in BoardFiles :
          /\ tasks' = boardData.tasks
          /\ nextTaskId' = IF boardData.nextTaskId = 0 THEN 1 ELSE boardData.nextTaskId
          /\ users' = mergeUsers(users, boardData.users)
    /\ savedBoard' = savedRebind([k \in DOMAIN tasks |-> 0])
    /\ edits' = edits + 1
    /\ probe' = Did("importBoardJSON", <<>>)
    /\ UNCHANGED <<conn, syncStatus, remote, ops, settled, quiet, starts,
                   nextUserId, roles,
                   currentUserId, taskModal>>

\* a pull that ran alone and succeeded (pullBoard, handlePull)
StorePull ==
    /\ edits < MaxStoreEdits
    /\ LET result == pullResult(getRepoIssues(issues))
       IN  /\ ~result.threw
           /\ tasks' = applyPull(result, tasks)
           /\ nextTaskId' = result.nextTaskId
    /\ savedBoard' = savedRebind([k \in DOMAIN tasks |-> 0])
    /\ edits' = edits + 1
    /\ probe' = Did("pullBoard", <<>>)
    /\ UNCHANGED <<users, conn, syncStatus, remote, ops, settled, quiet, starts,
                   nextUserId, roles,
                   currentUserId, taskModal>>

\* UserManager.createUser: the user object made of userData; the role is
\* 'developer' when none is given, a githubUsername of userData is not
\* copied
createUser(userData, id) ==
    [id |-> id, name |-> userData.name, email |-> userData.email,
     githubUsername |-> "",
     role |-> IF userData.role = "" THEN "developer" ELSE userData.role]

\* the value of #user-role in the user form: an option of the role registry
\* (the first or the last), '' when the registry is empty
FormRoles == IF roles = <<>> THEN {""} ELSE {roles[1], roles[Len(roles)]}

\* UserManager.saveUser for a new user: createUser from the user form; the
\* new user becomes the current user
CreateUser ==
    /\ edits < MaxStoreEdits
    /\ \E role \in FormRoles :
          users' = Append(users, createUser([name |-> "Di", email |-> "di@x",
                                             role |-> role, githubUsername |-> ""],
                                            nextUserId))
    /\ nextUserId' = nextUserId + 1
    /\ currentUserId' = nextUserId
    /\ edits' = edits + 1
    /\ probe' = Did("createUser", <<>>)
    /\ UNCHANGED <<tasks, nextTaskId, conn, syncStatus, remote, ops, settled, quiet,
                   starts, roles, savedBoard, taskModal>>

\* UserManager.getUserAssignedTasks: the positions of the tasks whose
\* assignee reads as that number
getUserAssignedTasks(list, userId) ==
    {j \in DOMAIN list : IsNumeric(list[j].assignee) /\ ParseInt(list[j].assignee) = userId}

\* the positions deleteUser's updateTask(task.id, ...) calls reach: for every
\* assigned task, the first task of the store with the id of that task
unassignedBy(list, userId) ==
    UNION {findTask(list, list[j].id) : j \in getUserAssignedTasks(list, userId)}

\* SettingsManager.handleDeleteUser with both questions answered yes:
\* UserManager.deleteUser
DeleteUser ==
    /\ edits < MaxStoreEdits
    /\ \E id \in {users[i].id : i \in DOMAIN users} :
          /\ tasks' = assignAt(tasks, unassignedBy(tasks, id), "assignee", "")
          /\ users' = SelectSeq(users, LAMBDA u : u.id # id)
          /\ probe' = Did("deleteUser", <<id>>)
          /\ savedBoard' =
                LET sb == savedAssign(unassignedBy(tasks, id), "assignee", "")
                IN  IF sb.has /\ sb.usersLive
                    THEN [sb EXCEPT !.usersLive = FALSE, !.users = users]
                    ELSE sb
    /\ edits' = edits + 1
    /\ UNCHANGED <<nextTaskId, conn, syncStatus, remote, ops, settled, quiet, starts, nextUserId, roles,
                   currentUserId, taskModal>>

InitStore ==
    /\ tasks = WithIds(<<TaskPool[1], TaskPool[2]>>)
    /\ nextTaskId = 3
    /\ users = InitUsers
    /\ nextUserId = Len(InitUsers) + 1
    /\ roles = DefaultRoles
    /\ currentUserId = 0
    /\ taskModal = NoModal
    /\ savedBoard = NoBoard
    /\ accessToken = TRUE
    /\ selectedRepo = TRUE
    /\ syncButtonsDisabled = FALSE
    /\ syncStatus = "idle"
    /\ \E r \in InitRemotes : issues = r.issues /\ labels = r.labels
    /\ ops = <<>>
    /\ settled = NoSettled
    /\ quiet = FALSE
    /\ edits = 0
    /\ starts = 0
    /\ probe = NoProbe

NextStore ==
    \/ StoreCreateTask
    \/ StoreDeleteTask
    \/ StoreMoveTask
    \/ SaveBoard
    \/ LoadBoard
    \/ ImportBoardJSON
    \/ StorePull
    \/ CreateUser
    \/ DeleteUser

SpecStore == InitStore /\ [][NextStore]_vars

\* the board saved, edited through the task operations and loaded again,
\* with nothing else happening in between
NextSnapshot ==
    \/ SaveBoard
    \/ StoreCreateTask
    \/ StoreDeleteTask
    \/ StoreMoveTask
    \/ LoadBoard

SpecSnapshot == InitStore /\ [][NextSnapshot]_vars

\* ------------------------------------------------- users, roles, current user
\* The user store with its role registry and current user, driven one
\* operation after the other.

\* Array.prototype.includes
includes(list, x) == \E i \in DOMAIN list : list[i] = x

\* the names offered to createRole / updateRole
RoleNames == {"Lead", "Designer"}

\* UserManager.createRole
CreateRole ==
    /\ edits < MaxStoreEdits
    /\ \E name \in RoleNames :
          /\ ~includes(roles, name)
          /\ roles' = Append(roles, name)
    /\ edits' = edits + 1
    /\ probe' = Did("createRole", <<>>)
    /\ UNCHANGED <<local, conn, syncStatus, remote, ops, settled, quiet, starts,
                   nextUserId, currentUserId, savedBoard, taskModal>>

\* UserManager.updateRole: the name is replaced in the registry
UpdateRole ==
    /\ edits < MaxStoreEdits
    /\ \E index \in DOMAIN roles, newName \in RoleNames :
          /\ ~(includes(roles, newName) /\ newName # roles[index])
          /\ roles' = [roles EXCEPT ![index] = newName]
          /\ roles' # roles
    /\ edits' = edits + 1
    /\ probe' = Did("updateRole", <<>>)
    /\ UNCHANGED <<local, conn, syncStatus, remote, ops, settled, quiet, starts,
                   nextUserId, currentUserId, savedBoard, taskModal>>

\* UserManager.deleteRole with the question answered yes: the users of the
\* role get the first other role, '' when there is none
DeleteRole ==
    /\ edits < MaxStoreEdits
    /\ \E name \in {roles[i] : i \in DOMAIN roles} :
          LET others == SelectSeq(roles, LAMBDA r : r # name)
              newRole == IF others = <<>> THEN "" ELSE others[1]
          IN  /\ users' = [i \in DOMAIN users |->
                             IF users[i].role = name
                             THEN [users[i] EXCEPT !.role = newRole] ELSE users[i]]
              /\ roles' = others
    /\ edits' = edits + 1
    /\ probe' = Did("deleteRole", <<>>)
    /\ UNCHANGED <<tasks, nextTaskId, conn, syncStatus, remote, ops, settled, quiet,
                   starts, nextUserId, currentUserId, savedBoard, taskModal>>

\* UserManager.getUserByEmail: the first user with that email, 0 for none
getUserByEmail(us, email) == Least({i \in DOMAIN us : us[i].email = email})

\* the Firebase accounts that may sign in
FirebaseUsers ==
    { [displayName |-> "Ann A", email |-> "ann@x"],
      [displayName |-> "Eve", email |-> "eve@x"] }

\* UserManager.syncFirebaseUser, on a sign-in
SyncFirebaseUser ==
    /\ edits < MaxStoreEdits
    /\ \E firebaseUser \in FirebaseUsers :
          LET localUser == getUserByEmail(users, firebaseUser.email)
          IN  IF localUser = 0
              THEN /\ users' = Append(users,
                                  createUser([name |-> firebaseUser.displayName,
                                              email |-> firebaseUser.email,
                                              role |-> "developer",
                                              githubUsername |-> ""], nextUserId))
                   /\ nextUserId' = nextUserId + 1
                   /\ currentUserId' = nextUserId
              ELSE /\ users' = [users EXCEPT
                                  ![localUser].name = firebaseUser.displayName]
                   /\ currentUserId' = users[localUser].id
                   /\ UNCHANGED nextUserId
    /\ edits' = edits + 1
    /\ probe' = Did("syncFirebaseUser", <<>>)
    /\ UNCHANGED <<tasks, nextTaskId, conn, syncStatus, remote, ops, settled, quiet,
                   starts, roles, savedBoard, taskModal>>

\* what GET /repos/{owner}/{repo}/collaborators answers: email is "" when the
\* entry has no email field
RepoCollaborators ==
    << [login |-> "carol", email |-> ""],
       [login |-> "bo-gh", email |-> "bo@x"],
       [login |-> "dan", email |-> "dan@x"] >>

\* `${collab.login}@users.noreply.github.com`
NoReplyEmail(login) ==
    CASE login = "carol" -> "carol@users.noreply.github.com"
      [] login = "bo-gh" -> "bo-gh@users.noreply.github.com"
      [] login = "dan" -> "dan@users.noreply.github.com"

\* importCollaboratorsAsUsers' loop over the collaborators still to do: the
\* users after it and the number created
RECURSIVE importLoop(_, _, _, _)
importLoop(us, nid, collaborators, importedCount) ==
    IF collaborators = <<>> THEN [users |-> us, count |-> importedCount]
    ELSE LET collab == Head(collaborators)
             existingUser == IF collab.email = "" THEN 0
                             ELSE getUserByEmail(us, collab.email)
         IN  IF existingUser # 0
             THEN importLoop(us, nid, Tail(collaborators), importedCount)
             ELSE importLoop(
                    Append(us, createUser(
                       [name |-> collab.login,
                        email |-> IF collab.email = ""
                                  THEN NoReplyEmail(collab.login)
                                  ELSE collab.email,
                        role |-> "developer",
                        githubUsername |-> collab.login], nid + importedCount)),
                    nid, Tail(collaborators), importedCount + 1)

\* GitHubBoards.importCollaboratorsAsUsers, from the answer of
\* getRepoCollaborators on
ImportCollaborators ==
    /\ edits < MaxStoreEdits
    /\ accessToken /\ selectedRepo
    /\ LET result == importLoop(users, nextUserId, RepoCollaborators, 0)
       IN  /\ users' = result.users
           /\ nextUserId' = nextUserId + result.count
           /\ currentUserId' = IF result.count = 0 THEN currentUserId
                               ELSE nextUserId + result.count - 1
           /\ probe' = Did("importCollaboratorsAsUsers", <<result.count>>)
    /\ edits' = edits + 1
    /\ UNCHANGED <<tasks, nextTaskId, conn, syncStatus, remote, ops, settled, quiet,
                   starts, roles, savedBoard, taskModal>>

\* UserManager.setCurrentUser
SetCurrentUser ==
    /\ edits < MaxStoreEdits
    /\ \E userId \in {users[i].id : i \in DOMAIN users} \cup {nextUserId} :
          /\ \E i \in DOMAIN users : users[i].id = userId
          /\ currentUserId' = userId
    /\ currentUserId' # currentUserId
    /\ edits' = edits + 1
    /\ probe' = Did("setCurrentUser", <<>>)
    /\ UNCHANGED <<local, conn, syncStatus, remote, ops, settled, quiet, starts,
                   nextUserId, roles, savedBoard, taskModal>>

\* SettingsManager.saveDefaultUser with a choice of #default-user-select:
\* a user of the store, or none (0)
SaveDefaultUser ==
    /\ edits < MaxStoreEdits
    /\ \E userId \in {users[i].id : i \in DOMAIN users} \cup {0} :
          currentUserId' = userId
    /\ currentUserId' # currentUserId
    /\ edits' = edits + 1
    /\ probe' = Did("saveDefaultUser", <<>>)
    /\ UNCHANGED <<local, conn, syncStatus, remote, ops, settled, quiet, starts,
                   nextUserId, roles, savedBoard, taskModal>>

NextUsers ==
    \/ CreateUser
    \/ DeleteUser
    \/ CreateRole
    \/ UpdateRole
    \/ DeleteRole
    \/ SyncFirebaseUser
    \/ ImportCollaborators
    \/ SetCurrentUser
    \/ SaveDefaultUser
    \/ SaveBoard
    \/ LoadBoard

\* the stores as they start, next to a repository without issues
InitUserStore == InitStore /\ issues = <<>>

SpecUsers == InitUserStore /\ [][NextUsers]_vars

\* ------------------------------------------------- the task modal
\* Editing a task in the modal: its form, its attachments and its comments.
MaxModalEdits == 5   \* modal operations per behaviour

\* openTaskModal(task) for the task at position k of the board
OpenTaskModal ==
    /\ edits < MaxModalEdits
    /\ ~taskModal.open
    /\ \E k \in DOMAIN tasks :
          LET task == tasks[k]
          IN  taskModal' = [taskModal EXCEPT
                  !.open = TRUE,
                  !.taskId = task.id,
                  !.currentTaskId = task.id,
                  !.form = [title |-> task.title, description |-> task.description,
                            assignee |-> selectValue(task.assignee, users),
                            priority |-> task.priority, dueDate |-> task.dueDate]]
    /\ edits' = edits + 1
    /\ probe' = Did("openTaskModal", <<>>)
    /\ UNCHANGED <<local, conn, syncStatus, remote, ops, settled, quiet, starts,
                   nextUserId, roles, currentUserId, savedBoard>>

\* what is typed into the form of a new task
NewTaskForm ==
    [title |-> "N", description |-> <<Tok("n")>>, assignee |-> "2",
     priority |-> "low", dueDate |-> ""]

\* openTaskModal() for a new task, and the form filled in
OpenAddTask ==
    /\ edits < MaxModalEdits
    /\ ~taskModal.open
    /\ taskModal' = [taskModal EXCEPT !.open = TRUE, !.taskId = 0,
                                      !.currentTaskId = 0, !.form = NewTaskForm]
    /\ edits' = edits + 1
    /\ probe' = Did("openTaskModal", <<>>)
    /\ UNCHANGED <<local, conn, syncStatus, remote, ops, settled, quiet, starts,
                   nextUserId, roles, currentUserId, savedBoard>>

\* another choice of #task-assignee
ChangeAssignee ==
    /\ edits < MaxModalEdits
    /\ taskModal.open
    /\ \E v \in {""} \cup {NumStr[users[i].id] : i \in DOMAIN users} :
          /\ v # taskModal.form.assignee
          /\ taskModal' = [taskModal EXCEPT !.form.assignee = v]
    /\ edits' = edits + 1
    /\ probe' = Did("changeAssignee", <<>>)
    /\ UNCHANGED <<local, conn, syncStatus, remote, ops, settled, quiet, starts,
                   nextUserId, roles, currentUserId, savedBoard>>

\* KanbanBoard.addAttachment
AddAttachment ==
    /\ edits < MaxModalEdits
    /\ taskModal.open
    /\ taskModal' = [taskModal EXCEPT !.currentAttachments = Append(@, "f2")]
    /\ edits' = edits + 1
    /\ probe' = Did("addAttachment", <<>>)
    /\ UNCHANGED <<local, conn, syncStatus, remote, ops, settled, quiet, starts,
                   nextUserId, roles, currentUserId, savedBoard>>

\* Array.prototype.splice(index, 1), index counted from 1 here
splice1(list, index) ==
    [j \in 1..(Len(list) - 1) |-> IF j < index THEN list[j] ELSE list[j + 1]]

\* KanbanBoard.removeAttachment, from a remove button of the rendered list
RemoveAttachment ==
    /\ edits < MaxModalEdits
    /\ taskModal.open
    /\ \E index \in DOMAIN taskModal.currentAttachments :
          taskModal' = [taskModal EXCEPT !.currentAttachments = splice1(@, index)]
    /\ edits' = edits + 1
    /\ probe' = Did("removeAttachment", <<>>)
    /\ UNCHANGED <<local, conn, syncStatus, remote, ops, settled, quiet, starts,
                   nextUserId, roles, currentUserId, savedBoard>>

\* variant: a new comment without an assignee
newCommentUnassigned(task, text, userId) ==
    [id |-> Len(task.comments) + 1, userId |-> userId, assigneeId |-> "",
     text |-> text]

\* addComment's comment object; "" stands for null, and id (Date.now()) is
\* a number greater than that of the comments the task has
newComment(task, text, userId) ==
    [id |-> Len(task.comments) + 1, userId |-> userId, assigneeId |-> task.assignee,
     text |-> text]

\* KanbanBoard.addComment: the comment goes to the first task with the id
\* in currentTaskId
AddComment ==
    /\ edits < MaxModalEdits
    /\ taskModal.open
    /\ taskModal.currentTaskId # 0
    /\ \E k \in findTask(tasks, taskModal.currentTaskId) :
          tasks' = [tasks EXCEPT ![k].comments =
                       Append(@, newComment(tasks[k], "c", currentUserId))]
    /\ edits' = edits + 1
    /\ probe' = Did("addComment", <<>>)
    /\ UNCHANGED <<nextTaskId, users, conn, syncStatus, remote, ops, settled, quiet,
                   starts, nextUserId, roles, currentUserId, savedBoard, taskModal>>

\* saveTask on an existing task: updateTask with the values of the form,
\* currentAttachments and the comments of the task
savedTask(task, form, attachments) ==
    [task EXCEPT !.title = form.title, !.description = form.description,
                 !.assignee = form.assignee, !.priority = form.priority,
                 !.dueDate = form.dueDate, !.attachments = attachments]

\* KanbanBoard.saveTask, then closeTaskModal
SaveTask ==
    /\ edits < MaxModalEdits
    /\ taskModal.open
    /\ IF taskModal.taskId # 0
       THEN /\ tasks' = [j \in DOMAIN tasks |->
                           IF j \in findTask(tasks, taskModal.taskId)
                           THEN savedTask(tasks[j], taskModal.form,
                                          taskModal.currentAttachments)
                           ELSE tasks[j]]
            /\ UNCHANGED nextTaskId
            /\ probe' = Did("saveTask", <<taskModal.taskId>>)
       ELSE /\ tasks' = Append(tasks,
                           [savedTask(NoTask, taskModal.form,
                                      taskModal.currentAttachments)
                              EXCEPT !.id = nextTaskId, !.status = "backlog"])
            /\ nextTaskId' = nextTaskId + 1
            /\ probe' = Did("saveTask", <<0>>)
    /\ taskModal' = [taskModal EXCEPT !.open = FALSE, !.currentTaskId = 0,
                                      !.currentAttachments = <<>>]
    /\ edits' = edits + 1
    /\ UNCHANGED <<users, conn, syncStatus, remote, ops, settled, quiet, starts,
                   nextUserId, roles, currentUserId, savedBoard>>

\* KanbanBoard.closeTaskModal (close button, cancel button)
CloseTaskModal ==
    /\ edits < MaxModalEdits
    /\ taskModal.open
    /\ taskModal' = [taskModal EXCEPT !.open = FALSE, !.currentTaskId = 0,
                                      !.currentAttachments = <<>>]
    /\ edits' = edits + 1
    /\ probe' = Did("closeTaskModal", <<>>)
    /\ UNCHANGED <<local, conn, syncStatus, remote, ops, settled, quiet, starts,
                   nextUserId, roles, currentUserId, savedBoard>>

\* a user deleted in the settings while the task modal is closed
DeleteUserModalClosed == ~taskModal.open /\ edits < MaxModalEdits /\ DeleteUser

\* the board of the modal: a task with an assignee, an attachment and a
\* comment, and a task without
InitModal ==
    /\ tasks = << [TaskPool[1] EXCEPT
                     !.id = 1,
                     !.comments = << [id |-> 1, userId |-> 2, assigneeId |-> "2",
                                      text |-> "c0"] >>],
                  [TaskPool[2] EXCEPT !.id = 2] >>
    /\ nextTaskId = 3
    /\ users = InitUsers
    /\ nextUserId = Len(InitUsers) + 1
    /\ roles = DefaultRoles
    /\ currentUserId = 0
    /\ taskModal = NoModal
    /\ savedBoard = NoBoard
    /\ accessToken = TRUE
    /\ selectedRepo = TRUE
    /\ syncButtonsDisabled = FALSE
    /\ syncStatus = "idle"
    /\ issues = <<>> /\ labels = <<>>
    /\ ops = <<>>
    /\ settled = NoSettled
    /\ quiet = FALSE
    /\ edits = 0
    /\ starts = 0
    /\ probe = NoProbe

NextModal ==
    \/ OpenTaskModal
    \/ OpenAddTask
    \/ ChangeAssignee
    \/ AddAttachment
    \/ RemoveAttachment
    \/ AddComment
    \/ SaveTask
    \/ CloseTaskModal
    \/ DeleteUserModalClosed

SpecModal == InitModal /\ [][NextModal]_vars

\* ------------------------------------------------- properties
Fields(t) == <<t.title, t.priority, t.dueDate, t.description, t.attachments, t.comments>>

\* the issue of the repository with that number
IssueNo(n) == issues[CHOOSE i \in DOMAIN issues : issues[i].number = n]

\* the writes whose effect is still to be seen in the repository: the last
\* write of a call that has run alone so far, and the last write of a call
\* that ran alone and settled, while no call is in flight
LastWrites ==
    {ops[i].wrote : i \in {j \in DOMAIN ops : ops[j].solo /\ ops[j].wrote.t # "none"}}
    \cup (IF ops = <<>> /\ settled.solo /\ settled.wrote.t # "none"
          THEN {settled.wrote} ELSE {})

\* C1 (as claimed): after a push that ran alone and succeeded and a pull that
\* then ran alone and succeeded, with no edit in between (or a sync that ran
\* alone), every task of the pushed list has a pulled task of the same title
\* with equal title, priority, due date, description, attachments and comments.
C1_RoundTripLossless ==
    (settled.ok /\ settled.roundTrip) =>
        \A i \in DOMAIN settled.before :
            \E j \in DOMAIN tasks : Fields(tasks[j]) = Fields(settled.before[i])

\* C2 (as claimed): a push of the task list that the previous push has just
\* pushed, with nothing else having touched the list or the repository,
\* creates no issue and no label.
C2_PushIdempotent ==
    /\ \A i \in DOMAIN ops :
          (ops[i].repeat /\ ops[i].solo) => (ops[i].nCreated = 0 /\ ops[i].nLabels = 0)
    /\ (settled.repeat /\ settled.solo) => (settled.nCreated = 0 /\ settled.nLabels = 0)

\* C3 (as claimed): push creates an issue only when the repository holds no
\* issue with exactly the task's title, and otherwise updates the first
\* issue of the repository with that title.
C3_CreateOnlyWhenNoRemoteIssue ==
    \A i \in DOMAIN ops :
        LET op == ops[i]
            now == SelectSeq(issues, LAMBDA x : ~x.pull_request)
            e == Least({k \in DOMAIN now : now[k].title = op.cur.title})
        IN  /\ op.req.t = "createIssue" => e = 0
            /\ op.req.t = "updateIssue" => (e > 0 /\ op.req.number = now[e].number)

\* C3 (amended): push creates an issue for a task exactly when the issue list
\* it fetched at its start holds no issue with exactly the task's title, and
\* otherwise updates the first issue of that list with that title.
C3_CreateOnlyWhenNotFetched ==
    \A i \in DOMAIN ops :
        LET op == ops[i]
            hits == {k \in DOMAIN op.existingIssues :
                        op.existingIssues[k].title = op.cur.title}
        IN  /\ op.req.t = "createIssue" => hits = {}
            /\ op.req.t = "updateIssue" =>
                  /\ hits # {}
                  /\ op.req.number = op.existingIssues[Least(hits)].number
            /\ (op.phase = "push" /\ op.idx > 0 /\ op.req.t # "none") =>
                  op.req.t \in {"createIssue", "updateIssue"}

C3_Witness ==
    \E i \in DOMAIN ops :
        /\ ops[i].req.t = "updateIssue"
        /\ Cardinality({k \in DOMAIN ops[i].existingIssues :
                           ops[i].existingIssues[k].title = ops[i].cur.title}) >= 2

\* C4: getKanbanStatus returns the first status in the order done,
\* in-progress, todo, backlog whose label is among the issue's labels, names
\* compared without regard to case, and backlog when none is.
StatusPrecedence == <<"done", "in-progress", "todo", "backlog">>
LabelOfStatus == [s \in {"backlog", "todo", "in-progress", "done"} |->
                    CASE s = "backlog" -> "backlog" [] s = "todo" -> "to do"
                      [] s = "in-progress" -> "in progress" [] s = "done" -> "done"]
HighestPresent(labs) ==
    LET present == {k \in DOMAIN StatusPrecedence :
                       \E i \in DOMAIN labs :
                           ToLowerCase(labs[i]) = LabelOfStatus[StatusPrecedence[k]]}
    IN  IF present = {} THEN "backlog" ELSE StatusPrecedence[Least(present)]

C4_StatusPrecedence ==
    (probe.fn = "getKanbanStatus" /\ probe.out # "none") =>
        probe.out = HighestPresent(probe.in)

C4_Witness ==
    /\ probe.out = "done"
    /\ probe.in = <<"In Progress", "Done", "to do">>

C6_PullReplaces ==
    (settled.kind \in {"pull", "sync"} /\ settled.ok) =>
        LET iss == SelectSeq(settled.remote, LAMBDA x : ~x.pull_request)
        IN  /\ Len(tasks) = Len(iss)
            /\ \A i \in DOMAIN tasks :
                  /\ tasks[i].id = i
                  /\ tasks[i].title = iss[i].title
                  /\ tasks[i].githubIssueNumber = iss[i].number
            /\ nextTaskId = Len(iss) + 1
            /\ \A i \in DOMAIN settled.before :
                  (\A k \in DOMAIN iss : iss[k].title # settled.before[i].title) =>
                      \A j \in DOMAIN tasks : tasks[j].title # settled.before[i].title

\* C7 (as claimed): after a pull every task's assignee is the local user
\* whose githubUsername is the login of the issue's first assignee, and
\* empty when there is no such user or the issue has no assignee.
UserRefs == {NumStr[users[u].id] : u \in DOMAIN users}
C7_PulledAssigneeIsLocalUser ==
    (settled.kind \in {"pull", "sync"} /\ settled.ok) =>
        LET iss == SelectSeq(settled.remote, LAMBDA x : ~x.pull_request)
        IN  \A i \in DOMAIN tasks :
                LET login == IF iss[i].assignees = <<>> THEN "" ELSE iss[i].assignees[1]
                    owners == {u \in DOMAIN users :
                                  login # "" /\ users[u].githubUsername = login}
                IN  /\ tasks[i].assignee \in UserRefs \cup {""}
                    /\ tasks[i].assignee =
                          IF owners = {} THEN "" ELSE NumStr[users[Least(owners)].id]

\* C8 (as claimed): the issue a push has just updated is assigned to the
\* login the task's assignee maps to, and to nobody when the task has no
\* assignee or its assignee maps to no login.
C8_UpdateReassigns ==
    \A w \in LastWrites :
        w.t = "updateIssue" =>
            LET login == getAssigneeLogin(w.task.assignee, users)
            IN  IssueNo(w.number).assignees = IF login = "" THEN <<>> ELSE <<login>>

\* C9: a sync issues the pull's request only after its push has succeeded,
\* never after a push that failed, and leaves the pull's result in the store.
C9_SyncPushThenPull ==
    /\ \A i \in DOMAIN ops :
          (ops[i].kind = "sync" /\ ops[i].nPullReq > 0) => ops[i].pushOk
    /\ (settled.kind = "sync" /\ settled.nPullReq > 0) => settled.pushOk
    /\ (settled.kind = "sync" /\ settled.ok) =>
          /\ settled.nPullReq = 1
          /\ tasks = pullResult(getRepoIssues(settled.remote)).tasks
          /\ nextTaskId = pullResult(getRepoIssues(settled.remote)).nextTaskId

C9_Witness ==
    /\ settled.kind = "sync" /\ settled.ok /\ settled.pushOk
    /\ settled.nCreated >= 1
    /\ Len(tasks) >= 2

\* C10 (as claimed): at most one push, pull or sync is in flight.
C10_OneOperationInFlight == Len(ops) <= 1

\* C11: when a sync that was the only call in flight ends successfully after
\* a task was created, moved or deleted between the end of its push and the
\* arrival of its pull result, the task list and next id are the pull result
\* of the repository as the push left it, whatever the edit was.
C11_EditBeforePullIsLost ==
    (settled.kind = "sync" /\ settled.ok /\ settled.editedInPull /\ settled.only) =>
        LET result == pullResult(getRepoIssues(settled.pushed))
        IN  /\ tasks = result.tasks
            /\ nextTaskId = result.nextTaskId
            /\ settled.remote = settled.pushed

C11_Witness ==
    /\ settled.kind = "sync" /\ settled.ok /\ settled.editedInPull /\ settled.only
    /\ \E i \in DOMAIN settled.before :
          /\ settled.before[i].title = "B"
          /\ settled.before[i].id = 3
    /\ \A j \in DOMAIN tasks : tasks[j].title # "B"

\* C12: a push, pull or sync called without a token ends at once with the
\* Unauthenticated error, one called with a token and without a repository
\* ends at once with the RepositoryNotSelected error, and in both cases no
\* call is put in flight (so no request is issued), the repository and the
\* sync status are as before; a call with both is put in flight.
C12_PreconditionErrors ==
    [][ (starts' # starts) =>
          /\ ~accessToken =>
                /\ settled'.phase = "Unauthenticated" /\ ~settled'.ok
                /\ ops' = ops /\ issues' = issues /\ labels' = labels
                /\ syncStatus' = syncStatus
          /\ (accessToken /\ ~selectedRepo) =>
                /\ settled'.phase = "RepositoryNotSelected" /\ ~settled'.ok
                /\ ops' = ops /\ issues' = issues /\ labels' = labels
                /\ syncStatus' = syncStatus
          /\ (accessToken /\ selectedRepo) =>
                /\ Len(ops') = Len(ops) + 1
                /\ ops'[Len(ops')].req.t \in {"getIssues", "pullIssues"} ]_vars

C12_Witness ==
    /\ settled.kind = "sync" /\ settled.phase = "Unauthenticated"
    /\ ~accessToken /\ ~selectedRepo
    /\ starts = 1 /\ ops = <<>>

\* C13: a step in which a call ends in failure during its push leaves the
\* repository, the task list and the next id as they are (what the push has
\* written stays written), takes the call out of flight and sets the error
\* status; a request to create an issue or a label that has not taken
\* effect is still outstanding unless its call has ended, so a failed write
\* is never followed by another write of the same push; and no step of a
\* push changes the task list or the next id.
C13_PushFailureAborts ==
    [][ /\ (settled' # settled /\ settled'.phase = "push" /\ ~settled'.ok) =>
              /\ \E i \in DOMAIN ops :
                    /\ ops[i].phase = "push" /\ ops[i].req.t # "none"
                    /\ ops' = Remove(ops, i)
                    /\ settled'.nCreated = ops[i].nCreated
                    /\ settled'.wrote = ops[i].wrote
              /\ issues' = issues /\ labels' = labels
              /\ tasks' = tasks /\ nextTaskId' = nextTaskId
              /\ syncStatus' = "error"
              /\ settled'.wrote.t # "none" =>
                    \E k \in DOMAIN issues' : issues'[k].number = settled'.wrote.number
        /\ (issues' = issues /\ labels' = labels /\ Len(ops') = Len(ops)) =>
              \A i \in DOMAIN ops :
                  ops[i].req.t \in {"createIssue", "createLabel"} =>
                      ops'[i].req = ops[i].req
        /\ (\E i \in DOMAIN ops : ops[i].phase = "push" /\ ops'  # ops
                                    /\ edits' = edits
                                    /\ \A j \in DOMAIN ops : ops[j].req.t # "pullIssues") =>
              (tasks' = tasks /\ nextTaskId' = nextTaskId) ]_vars

C13_Witness ==
    /\ settled.kind = "push" /\ settled.phase = "push" /\ ~settled.ok
    /\ settled.nCreated = 1 /\ settled.wrote.t = "createIssue"
    /\ Len(tasks) = 2 /\ Len(issues) = 1
    /\ syncStatus = "error"

\* C14: a step that is no local edit changes the task list or the next id
\* only by replacing both at once with the complete result of a pull that
\* ended successfully (one task per fetched issue, every body readable),
\* and a step in which a pull or the pull of a sync fails, at its request or
\* while the list is built, leaves the task list and the next id as they
\* are.
C14_PullNeverPartiallyApplies ==
    [][ /\ ((tasks' # tasks \/ nextTaskId' # nextTaskId) /\ edits' = edits) =>
              LET fetched == getRepoIssues(issues)
              IN  /\ settled'.kind \in {"pull", "sync"} /\ settled'.ok
                  /\ Len(ops') = Len(ops) - 1
                  /\ Len(tasks') = Len(fetched)
                  /\ \A i \in DOMAIN fetched :
                        /\ tasks'[i].id = i
                        /\ tasks'[i].title = fetched[i].title
                        /\ ~parseTaskBody(fetched[i].body).isNull
                  /\ nextTaskId' = Len(fetched) + 1
        /\ (settled' # settled /\ ~settled'.ok /\ settled'.phase \in {"pull", "parse"}) =>
              (tasks' = tasks /\ nextTaskId' = nextTaskId) ]_vars

C14_Witness ==
    /\ settled.kind = "sync" /\ ~settled.ok /\ settled.phase = "parse"
    /\ settled.nCreated >= 1
    /\ Len(tasks) = 2 /\ tasks[1].title = "A"
    /\ ~parseTaskBody(issues[Len(issues) - 1].body).isNull
    /\ parseTaskBody(issues[Len(issues)].body).isNull

\* C16 (as claimed): no pull and no pull of a sync fails once its request
\* has been answered.
C16_PullSucceedsOnAnyBody ==
    ~(settled.kind \in {"pull", "sync"} /\ ~settled.ok /\ settled.phase = "parse")

\* the body's first metadata block holds text that is no JSON
FirstOpen(body) ==
    Least({i \in DOMAIN body :
              body[i].k = "OPEN" /\ \E c \in (i + 1)..Len(body) : body[c].k = "CLOSE"})
FirstClose(body) ==
    Least({c \in (FirstOpen(body) + 1)..Len(body) : body[c].k = "CLOSE"})
MalformedBlock(body) ==
    /\ FirstOpen(body) > 0
    /\ \A i \in (FirstOpen(body) + 1)..(FirstClose(body) - 1) :
          body[i].k \in {"BADJSON", "SP", "NL2"}

\* the body without its comments and without its bold runs, trimmed
RECURSIVE WithoutComments(_)
WithoutComments(body) ==
    IF FirstOpen(body) = 0 THEN body
    ELSE SubSeq(body, 1, FirstOpen(body) - 1)
         \o WithoutComments(SubSeq(body, FirstClose(body) + 1, Len(body)))
WithoutMarkup(body) ==
    Trim(SelectSeq(WithoutComments(body), LAMBDA t : t.k \notin {"PRI", "DUE", "BOLD"}))

\* the body without its first comment and without its bold runs, trimmed
WithoutFirstComment(body) ==
    Trim(SelectSeq(SubSeq(body, 1, FirstOpen(body) - 1)
                   \o SubSeq(body, FirstClose(body) + 1, Len(body)),
                   LAMBDA t : t.k \notin {"PRI", "DUE", "BOLD"}))

\* the word after the first "**Priority:** ", the date after the first
\* "**Due Date:** "
PriorityLine(body) ==
    LET hits == {i \in 1..(Len(body) - 2) :
                    /\ body[i].k = "PRI" /\ body[i + 1].k = "SP"
                    /\ body[i + 2].k \in {"a", "b", "high", "2024-01-01"}}
    IN  IF hits = {} THEN "medium"
        ELSE IF body[Least(hits) + 2].k = "2024-01-01" THEN "2024"
        ELSE body[Least(hits) + 2].k
DueDateLine(body) ==
    LET hits == {i \in 1..(Len(body) - 2) :
                    /\ body[i].k = "DUE" /\ body[i + 1].k = "SP"
                    /\ body[i + 2].k = "2024-01-01"}
    IN  IF hits = {} THEN "" ELSE "2024-01-01"

\* C15 (as claimed): parseTaskBody of a body whose metadata block holds no
\* JSON returns, without raising and without returning null, priority
\* "medium", due date "" and as description the body with the markup
\* removed.
C15_MalformedGivesDefaults ==
    (probe.fn = "parseTaskBody" /\ probe.out # <<>> /\ MalformedBlock(probe.in)) =>
        /\ ~probe.out[1].isNull
        /\ probe.out[1].priority = "medium"
        /\ probe.out[1].dueDate = ""
        /\ probe.out[1].description = WithoutMarkup(probe.in)

\* C15 (amended): parseTaskBody of a body whose metadata block holds no JSON
\* returns, without raising and without returning null, as priority the
\* word after the body's first "**Priority:** " ("medium" when there is
\* none), as due date the date after its first "**Due Date:** " ("" when
\* there is none), and as description the body without its first comment
\* and without its bold runs, trimmed.
C15_MalformedGivesFallback ==
    (probe.fn = "parseTaskBody" /\ probe.out # <<>> /\ MalformedBlock(probe.in)) =>
        /\ ~probe.out[1].isNull
        /\ probe.out[1].priority = PriorityLine(probe.in)
        /\ probe.out[1].dueDate = DueDateLine(probe.in)
        /\ probe.out[1].description = WithoutFirstComment(probe.in)
        /\ probe.out[1].comments = <<>>
        /\ probe.out[1].attachments = <<>>

C15_Witness ==
    /\ probe.fn = "parseTaskBody" /\ probe.out # <<>>
    /\ probe.in = <<Tok("PRI"), Tok("SP"), Tok("high"),
                     Tok("OPEN"), Tok("BADJSON"), Tok("CLOSE")>>
    /\ probe.out[1].priority = "high"
    /\ probe.out[1].description = <<Tok("high")>>

\* the task's assignee field names the user with that id
AssignedTo(t, userId) == userId \in DOMAIN NumStr /\ t.assignee = NumStr[userId]

\* C17 (as claimed): a confirmed deletion of a user leaves no user with that
\* id in the user store, empties the assignee of exactly the tasks that were
\* assigned to the user, and leaves every other task and every other field
\* of those tasks as they were.
C17_DeleteUserUnassigns ==
    [][ probe'.fn = "deleteUser" /\ edits' = edits + 1 =>
          LET id == probe'.in[1]
          IN  /\ \A i \in DOMAIN users' : users'[i].id # id
              /\ DOMAIN tasks' = DOMAIN tasks
              /\ \A j \in DOMAIN tasks :
                    tasks'[j] = IF AssignedTo(tasks[j], id)
                                THEN [tasks[j] EXCEPT !.assignee = ""]
                                ELSE tasks[j] ]_vars

\* C18 (as claimed): in every reachable state no two tasks of the store have
\* the same id, so createTask never gives a new task an id that a task of
\* the store already holds.
C18_TaskIdsUnique ==
    \A i, j \in DOMAIN tasks : tasks[i].id = tasks[j].id => i = j

\* the four columns of the board
KanbanStatuses == {"backlog", "todo", "in-progress", "done"}

\* C19 (as claimed): in every reachable state the status of every task of
\* the store is one of backlog, todo, in-progress, done.
C19_StatusIsAColumn ==
    \A i \in DOMAIN tasks : tasks[i].status \in KanbanStatuses

\* C20 (as claimed): in every reachable state no two users of the user store
\* have the same id.
C20_UserIdsUnique ==
    \A i, j \in DOMAIN users : users[i].id = users[j].id => i = j

\* C21 (as claimed): in every reachable state the role of every user is a
\* member of the role registry.
C21_RolesInRegistry ==
    \A i \in DOMAIN users : includes(roles, users[i].role)

\* C22: a comment added to a task gets the assignee the task has at that
\* moment as its assignee reference (none when the task is unassigned) and
\* leaves the comments the task had as they were; no other operation (a
\* save of the task with another assignee, a deleted user) changes the
\* comments of a task.
C22_CommentAssigneeFixedAtCreation ==
    [][ /\ (probe'.fn = "addComment" /\ edits' = edits + 1 =>
              \E k \in DOMAIN tasks :
                 /\ tasks[k].id = taskModal.currentTaskId
                 /\ Len(tasks'[k].comments) = Len(tasks[k].comments) + 1
                 /\ SubSeq(tasks'[k].comments, 1, Len(tasks[k].comments))
                       = tasks[k].comments
                 /\ tasks'[k].comments[Len(tasks'[k].comments)].assigneeId
                       = tasks[k].assignee)
        /\ (probe'.fn # "addComment" =>
              \A k \in DOMAIN tasks \cap DOMAIN tasks' :
                 tasks'[k].comments = tasks[k].comments) ]_vars

\* C22 witness: a comment added while the task was assigned to user 1, on a
\* task that has been given another assignee (or none) since
C22_Witness ==
    \E k \in DOMAIN tasks :
       \E c \in DOMAIN tasks[k].comments :
          /\ tasks[k].comments[c].text = "c"
          /\ tasks[k].comments[c].assigneeId = "1"
          /\ tasks[k].assignee # "1"

\* C28 (as claimed): a task opened in the edit modal and saved with nothing
\* done in between has the attachments, comments, status and id it had.
C28_SaveUnchangedKeepsTask ==
    [][ probe.fn = "openTaskModal" /\ probe'.fn = "saveTask"
        /\ taskModal.taskId # 0 /\ edits' = edits + 1 =>
          \A k \in findTask(tasks, taskModal.taskId) :
             /\ tasks'[k].attachments = tasks[k].attachments
             /\ tasks'[k].comments = tasks[k].comments
             /\ tasks'[k].status = tasks[k].status
             /\ tasks'[k].id = tasks[k].id ]_vars

\* C23 (as claimed): after an import of the collaborators, every user the
\* import created stands for the login of its collaborator: a task assigned
\* to the user is pushed as an issue assigned to that login.
C23_ImportedUsersCarryLogin ==
    probe.fn = "importCollaboratorsAsUsers" =>
       \A i \in (Len(users) - probe.in[1] + 1)..Len(users) :
          users[i].id \in DOMAIN NumStr =>
             getAssigneeLogin(NumStr[users[i].id], users) = users[i].name

\* C30 (as claimed): an import of the collaborators that follows an import
\* of the same collaborators creates no user and leaves the user store as
\* it is.
C30_ImportTwiceChangesNothing ==
    [][ probe.fn = "importCollaboratorsAsUsers"
        /\ probe'.fn = "importCollaboratorsAsUsers" /\ edits' = edits + 1 =>
          /\ probe'.in[1] = 0
          /\ users' = users ]_vars

\* C29 (as claimed): in every reachable state the current user is none or
\* the id of a user of the user store.
C29_CurrentUserExists ==
    currentUserId = 0 \/ \E i \in DOMAIN users : users[i].id = currentUserId

\* the assignee names a user of the store: by its id, or by the login the
\* user has on GitHub
RefersToUser(assignee, us) ==
    \/ IsNumeric(assignee) /\ \E i \in DOMAIN us : us[i].id = ParseInt(assignee)
    \/ \E i \in DOMAIN us : us[i].githubUsername # "" /\ us[i].githubUsername = assignee

\* C26 (as claimed): in every reachable state the assignee of every task is
\* empty or refers to a user of the user store.
C26_AssigneeExists ==
    \A k \in DOMAIN tasks :
       tasks[k].assignee = "" \/ RefersToUser(tasks[k].assignee, users)

\* C25 (as claimed): the task count a successful push reports is the number
\* of tasks for which that push wrote an issue.
C25_PushCountIsWrites ==
    settled.kind = "push" /\ settled.ok => settled.taskCount = settled.nWrites

\* the body holds plain text only: no bold run and nothing of a comment
PlainText(body) ==
    \A i \in DOMAIN body :
        body[i].k \notin {"PRI", "DUE", "BOLD", "OPEN", "CLOSE", "JSON", "JSONNULL", "BADJSON"}

\* C24 (as claimed): an issue whose body has no metadata block pulls into a
\* task with the status of its labels, the priority of the body's Priority
\* line ("medium" without one), the due date of its Due Date line ("" without
\* one) and, when the body holds no markup, the raw body as description.
C24_NoBlockPullRawBody ==
    (probe.fn = "pulledTask" /\ probe.out # <<>> /\ FirstOpen(probe.in.body) = 0) =>
        /\ probe.out[1].status = HighestPresent(probe.in.labels)
        /\ probe.out[1].priority = PriorityLine(probe.in.body)
        /\ probe.out[1].dueDate = DueDateLine(probe.in.body)
        /\ PlainText(probe.in.body) => probe.out[1].description = probe.in.body

\* C24 (amended): the same, with the description of a body without markup
\* being the body with the white space at its two ends removed; the
\* priority is the first word after the first "**Priority:** ", the due date
\* the run of digits and dashes after the first "**Due Date:** ".
C24_NoBlockPullTrimmedBody ==
    (probe.fn = "pulledTask" /\ probe.out # <<>> /\ FirstOpen(probe.in.body) = 0) =>
        /\ probe.out[1].status = HighestPresent(probe.in.labels)
        /\ probe.out[1].priority = PriorityLine(probe.in.body)
        /\ probe.out[1].dueDate = DueDateLine(probe.in.body)
        /\ PlainText(probe.in.body) => probe.out[1].description = Trim(probe.in.body)

C24_Witness ==
    /\ probe.fn = "pulledTask" /\ probe.out # <<>>
    /\ probe.in.labels = <<"to do", "high-priority">>
    /\ probe.in.body = <<Tok("a"), Tok("NL2")>>
    /\ probe.out[1].status = "todo"
    /\ probe.out[1].priority = "medium"
    /\ probe.out[1].dueDate = ""
    /\ probe.out[1].description = <<Tok("a")>>

\* C27: loadBoard of a board saved earlier, with nothing but task edits in
\* between, sets the task list and the next id to the values they had when
\* the board was saved.
C27_LoadRestoresSnapshot ==
    [][probe'.fn = "loadBoard" =>
          /\ tasks' = savedBoard.snap
          /\ nextTaskId' = savedBoard.nextTaskId]_vars

====
